---- MODULE Spec2Model ----
(***************************************************************************)
(* Model of the collaborative synchronization engine of jamal-app: the     *)
(* useCollaboration hook (batching, outbox lock, echo handling, offline    *)
(* replay), the LWW merge utility and the socket transport it drives.      *)
(***************************************************************************)
EXTENDS Integers, Sequences, FiniteSets, TLC

(* ------------------------------ bounds -------------------------------- *)
\* number of local edits the user makes
MaxEdits == 2
\* largest version number a server message carries
MaxVersion == 1
\* largest value of the wall clock (Date.now())
MaxTime == 2
\* number of store:patch messages emitted
MaxPatches == 2
\* number of untracked retry timers (setTimeout(sendBatch)) alive at once
MaxRetryTimers == 1
\* cap of the consecutive-conflict counter
MaxConflicts == 1
\* number of local edits in the specifications that model record contents
MaxDocEdits == 1
\* cap of the consecutive-conflict counter in the specification of the backoff
MaxBackoffSteps == 7

\* entries of the outbox batch up to which the store listener is followed
MaxQueued == 2
\* number of saves into the offline queue store (the time of the latest save)
MaxSaves == 3
\* number of socket.io sockets one CollabSocket creates
MaxSockets == 2
\* number of seconds the clock of the presence sweep is followed
MaxSweepSeconds == 16
\* number of quarter-throttle intervals the clock of the presence sender is followed
MaxThrottleSteps == 4
\* number of cursor positions the pointer produces
MaxCursors == 3

(* ----------------------------- constants ------------------------------ *)
ROOM == "room"
OTHER_ROOM == "other"
Rooms == {ROOM, OTHER_ROOM}

CLIENT_ID == "client-1"

\* record ids: document records and one purely local (session) record
SyncIds == {"shape:1", "shape:2"}
LocalIds == {"camera:1"}
AllIds == SyncIds \cup LocalIds

\* content a remote participant writes (local edit k writes content k)
RemoteVal == 0

NoUpdateId == 0
ForeignUpdateId == 99

ErrorCodes == {"VERSION_CONFLICT", "UNAUTHENTICATED", "INTERNAL"}

\* handleError: first delay and largest delay (ms) of the conflict backoff
BACKOFF_BASE_MS == 50
BACKOFF_MAX_MS == 2000
\* sendBatch: delay (ms) of the retry scheduled by the safety timer's callback
TIMEOUT_RETRY_MS == 100
\* sendPresence: least time (ms) between two presence:update messages
PRESENCE_THROTTLE_MS == 50
\* presence cleanup: age (ms) beyond which an entry is stale, and the period
\* (ms) of the sweep
PRESENCE_STALE_MS == 10000
PRESENCE_SWEEP_MS == 5000
\* Date.now() (ms) when the hook mounts; lastPresenceUpdateRef starts at 0, far
\* more than a throttle interval earlier
MOUNT_MS == 100

(* ------------------------- Logical clock & merge ---------------------- *)
Ts(t, c) == [time |-> t, clientId |-> c]

\* String.prototype.localeCompare on the client ids that occur
ClientRank(c) == CASE c = CLIENT_ID -> 1 [] c = "remote" -> 2 [] c = "server" -> 3 [] OTHER -> 4

LocaleCompare(a, b) == IF ClientRank(a) < ClientRank(b) THEN -1 ELSE IF ClientRank(a) > ClientRank(b) THEN 1 ELSE 0

\* a comparison that looks at the times alone
compareTimesOnly(a, b) == a.time - b.time

compareTimestamps(a, b) == IF a.time # b.time THEN a.time - b.time ELSE LocaleCompare(a.clientId, b.clientId)

createTimestamp(clientId, t) == Ts(t, clientId)

hasChanges(b) == Len(b.put) > 0 \/ Len(b.update) > 0 \/ Len(b.remove) > 0

\* a merge of one id that gives a tie to the remote side
MergeOneRemoteOnTie(id, lr, lts, rr, rts, localClientId, t) ==
  LET localTs == IF id \in DOMAIN lts THEN lts[id] ELSE Ts(0, localClientId)
      remoteTs == IF id \in DOMAIN rts THEN rts[id] ELSE Ts(t, "remote")
  IN IF id \in DOMAIN lr /\ id \notin DOMAIN rr THEN <<lr[id], localTs>>
     ELSE IF id \notin DOMAIN lr /\ id \in DOMAIN rr THEN <<rr[id], remoteTs>>
     ELSE IF compareTimestamps(localTs, remoteTs) > 0 THEN <<lr[id], localTs>>
     ELSE <<rr[id], remoteTs>>

\* a merge of one id that stamps a record present on both sides with the time
\* of the merge
MergeOneRestamps(id, lr, lts, rr, rts, localClientId, t) ==
  LET localTs == IF id \in DOMAIN lts THEN lts[id] ELSE Ts(0, localClientId)
      remoteTs == IF id \in DOMAIN rts THEN rts[id] ELSE Ts(t, "remote")
  IN IF id \in DOMAIN lr /\ id \notin DOMAIN rr THEN <<lr[id], localTs>>
     ELSE IF id \notin DOMAIN lr /\ id \in DOMAIN rr THEN <<rr[id], remoteTs>>
     ELSE IF compareTimestamps(localTs, remoteTs) >= 0 THEN <<lr[id], Ts(t, localClientId)>>
     ELSE <<rr[id], Ts(t, "remote")>>

\* one merged id of mergeWithLWW: <<record, timestamp>>
MergeOne(id, lr, lts, rr, rts, localClientId, t) ==
  LET localTs == IF id \in DOMAIN lts THEN lts[id] ELSE Ts(0, localClientId)
      remoteTs == IF id \in DOMAIN rts THEN rts[id] ELSE Ts(t, "remote")
  IN IF id \in DOMAIN lr /\ id \notin DOMAIN rr THEN <<lr[id], localTs>>
     ELSE IF id \notin DOMAIN lr /\ id \in DOMAIN rr THEN <<rr[id], remoteTs>>
     ELSE IF compareTimestamps(localTs, remoteTs) >= 0 THEN <<lr[id], localTs>>
     ELSE <<rr[id], remoteTs>>

mergeWithLWW(lr, lts, rr, rts, localClientId, t) ==
  LET allIds == DOMAIN lr \cup DOMAIN rr
  IN [records |-> [id \in allIds |-> MergeOne(id, lr, lts, rr, rts, localClientId, t)[1]],
      timestamps |-> [id \in allIds |-> MergeOne(id, lr, lts, rr, rts, localClientId, t)[2]]]

(* ------------------------------- state -------------------------------- *)
VARIABLES
  sock,               \* transport: "none" | "connecting" | "connected"
  isConnected,        \* React state isConnected
  hasRequestedStore,  \* hasRequestedStoreRef
  version,            \* versionRef
  pending,            \* pendingBatchRef
  inflight,           \* inflightBatchRef: <<>> (null) or <<batch>>
  isSending,          \* isSendingRef, the sender lock
  isSyncing,          \* isSyncingRef
  syncTimeout,        \* the safety timer of sendBatch is armed
  debounce,           \* batchThrottleRef is armed
  retryTimers,        \* untracked setTimeout(() => sendBatch()) timers alive
  retryDelay,         \* delay (ms) of the retry timer the last step scheduled, 0 if none
  storeEvent,         \* the 'user'-source change event of the last step's own store writes
  warned,             \* ids the last step logged as failed to apply (console.warn)
  mergeIn,            \* the arguments of the calls of the merge utility made on their own
  mergeOut,           \* <<>> or <<the call made last and what it returned>>
  queueStore,         \* localStorage['jamal_offline_changes']: the entries of all tabs and rooms
  ioSockets,          \* the socket.io sockets a CollabSocket created, each with its listeners:
                      \* "connecting" | "connected" | "closed"
  socketRef,          \* CollabSocket.socket: 0 (null) or the index of a socket of ioSockets
  currentRoomId,      \* CollabSocket.currentRoomId
  joinsSent,          \* the room ids of the join messages the last step emitted
  joinRequested,      \* the room of the latest join() call that no leave() or disconnect() followed
  clockMs,            \* Date.now() in ms, for what is timed in ms (presence)
  remotePresences,    \* React state remotePresences: participant id -> entry
  sweepAt,            \* the time (ms) at which the cleanup interval fires next
  lastPresenceUpdate, \* lastPresenceUpdateRef
  cursorCount,        \* number of cursor positions the pointer produced so far
  presenceSent,       \* the cursors of the presence:update messages emitted so far, in order
  conflictRetryCount, \* conflictRetryCountRef
  pendingUpdateIds,   \* pendingUpdateIdsRef
  recentlySent,       \* recentlySentRecordsRef
  doc,                \* the editor's document store: id -> content
  localTimestamps,    \* localTimestampsRef
  offline,            \* the offline entry of this room: <<>> or <<entry>>
  hasPendingChanges,  \* React state hasPendingChanges
  now,                \* Date.now()
  patchCount,         \* number of store:patch messages emitted so far
  emitted,            \* the store:patch the last step put on the wire: <<>> or <<message>>
  editCount,          \* number of local edits captured so far
  acked,              \* edits confirmed by store:confirmed, and edits of local-only records
  offlineAdded,       \* ids put while disconnected and not removed locally since
  confirmSeesEditor,  \* the sendBatch that handleStoreConfirmed closes over saw an editor
  srvVersion,         \* the collab server's version of the room
  s2c                 \* messages from the server to this client, in order

vars == <<sock, isConnected, hasRequestedStore, version, pending, inflight, isSending,
          isSyncing, syncTimeout, debounce, retryTimers, retryDelay, storeEvent, conflictRetryCount,
          pendingUpdateIds, recentlySent, doc, localTimestamps, offline,
          hasPendingChanges, now, patchCount, editCount, acked,
          offlineAdded, emitted, confirmSeesEditor, srvVersion, s2c, warned, mergeIn, mergeOut, queueStore,
          ioSockets, socketRef, currentRoomId, joinsSent, joinRequested,
          clockMs, remotePresences, sweepAt, lastPresenceUpdate, cursorCount, presenceSent>>

\* the state of the parts that are modelled on their own
mergeVars == <<mergeIn, mergeOut>>

queueVars == <<queueStore>>

transportVars == <<ioSockets, socketRef, currentRoomId, joinsSent, joinRequested>>

\* the presence channel, but for the presence map
presenceSender == <<clockMs, sweepAt, lastPresenceUpdate, cursorCount, presenceSent>>

presenceVars == <<presenceSender, remotePresences>>

partVars == <<mergeVars, queueVars, transportVars, presenceVars>>

\* the state of the collab server and of its channel to this client
serverVars == <<srvVersion, s2c>>

EmptyBatch == [put |-> <<>>, update |-> <<>>, remove |-> <<>>]
EmptyMap == [i \in {} |-> 0]

\* a change event of the document store: ids added, updated and removed
NoEvent == [added |-> {}, updated |-> {}, removed |-> {}]

\* no call of mergeWithLWW on its own is set up
NoMergeArgs == [lr |-> EmptyMap, lts |-> EmptyMap, rr |-> EmptyMap, rts |-> EmptyMap]

\* the engine after the first render of useCollaboration
InitEngine ==
  /\ sock = "none"
  /\ isConnected = FALSE
  /\ hasRequestedStore = FALSE
  /\ version = 0
  /\ pending = EmptyBatch
  /\ inflight = <<>>
  /\ isSending = FALSE
  /\ isSyncing = FALSE
  /\ syncTimeout = FALSE
  /\ debounce = FALSE
  /\ retryTimers = 0
  /\ retryDelay = 0
  /\ storeEvent = NoEvent
  /\ warned = {}
  /\ conflictRetryCount = 0
  /\ pendingUpdateIds = {}
  /\ recentlySent = {}
  /\ doc = EmptyMap
  /\ localTimestamps = EmptyMap
  /\ offline = <<>>
  /\ hasPendingChanges = FALSE
  /\ now = 1
  /\ patchCount = 0
  /\ emitted = <<>>
  /\ editCount = 0
  /\ acked = {}
  /\ offlineAdded = {}
  /\ confirmSeesEditor \in BOOLEAN
  /\ srvVersion = 0
  /\ s2c = <<>>

\* no call of mergeWithLWW on its own has been made
MergeIdle == mergeIn = NoMergeArgs /\ mergeOut = <<>>

\* localStorage holds no offline entry
QueueEmpty == queueStore = <<>>

\* currentRoomId: null
NoRoom == "null"

\* a CollabSocket after its constructor
TransportNew ==
  /\ ioSockets = <<>> /\ socketRef = 0 /\ currentRoomId = NoRoom /\ joinsSent = <<>>
  /\ joinRequested = NoRoom

\* the presence channel when the hook mounts
PresenceNew ==
  /\ clockMs = MOUNT_MS
  /\ remotePresences = EmptyMap
  /\ sweepAt = MOUNT_MS + PRESENCE_SWEEP_MS
  /\ lastPresenceUpdate = 0
  /\ cursorCount = 0
  /\ presenceSent = <<>>

Init ==
  /\ InitEngine
  /\ MergeIdle
  /\ QueueEmpty
  /\ TransportNew
  /\ PresenceNew

(* ------------------------------ transport ----------------------------- *)
\* CollabSocket.isConnected
SocketConnected == sock = "connected"

\* CollabSocket.patchStore: the store:patch payload put on the wire
patchStore(roomId, baseVersion, changes, updateId) ==
  [roomId |-> roomId, baseVersion |-> baseVersion, changes |-> changes]

(* ------------------------------ outbox -------------------------------- *)
\* the refs sendBatch reads and writes, as one value
Sender ==
  [pending |-> pending, inflight |-> inflight, isSending |-> isSending,
   isSyncing |-> isSyncing, syncTimeout |-> syncTimeout,
   pendingUpdateIds |-> pendingUpdateIds, patchCount |-> patchCount,
   emitted |-> <<>>, retryTimers |-> retryTimers]

SetSender(s) ==
  /\ pending' = s.pending
  /\ inflight' = s.inflight
  /\ isSending' = s.isSending
  /\ isSyncing' = s.isSyncing
  /\ syncTimeout' = s.syncTimeout
  /\ pendingUpdateIds' = s.pendingUpdateIds
  /\ patchCount' = s.patchCount
  /\ emitted' = s.emitted
  /\ retryTimers' = s.retryTimers

\* the in-flight batch put back in front of the pending batch
RestoreInflight(s) ==
  IF s.inflight = <<>> THEN s
  ELSE [s EXCEPT !.pending = [put |-> s.inflight[1].put \o s.pending.put,
                              update |-> s.inflight[1].update \o s.pending.update,
                              remove |-> s.inflight[1].remove \o s.pending.remove],
                 !.inflight = <<>>]

\* sendBatch would emit a store:patch
WouldSend(s, connected) == connected /\ hasChanges(s.pending) /\ ~s.isSending

\* sendBatch without its check of the sender lock
sendBatchNoLock(s, connected, ver) ==
  IF ~connected THEN s
  ELSE IF ~hasChanges(s.pending) THEN s
  ELSE [s EXCEPT !.isSending = TRUE,
                 !.inflight = <<s.pending>>,
                 !.pending = EmptyBatch,
                 !.pendingUpdateIds = s.pendingUpdateIds \cup {s.patchCount + 1},
                 !.patchCount = s.patchCount + 1,
                 !.emitted = <<patchStore(ROOM, ver, s.pending, s.patchCount + 1)>>,
                 !.syncTimeout = TRUE]

\* sendBatch that leaves the batch it sent in the pending batch
sendBatchKeepsPending(s, connected, ver) ==
  IF ~connected THEN s
  ELSE IF ~hasChanges(s.pending) THEN s
  ELSE IF s.isSending THEN s
  ELSE [s EXCEPT !.isSending = TRUE,
                 !.inflight = <<s.pending>>,
                 !.pendingUpdateIds = s.pendingUpdateIds \cup {s.patchCount + 1},
                 !.patchCount = s.patchCount + 1,
                 !.emitted = <<patchStore(ROOM, ver, s.pending, s.patchCount + 1)>>,
                 !.syncTimeout = TRUE]

\* sendBatch that sends the version it expects the server to assign next
sendBatchOptimistic(s, connected, ver) ==
  IF ~connected THEN s
  ELSE IF ~hasChanges(s.pending) THEN s
  ELSE IF s.isSending THEN s
  ELSE [s EXCEPT !.isSending = TRUE,
                 !.inflight = <<s.pending>>,
                 !.pending = EmptyBatch,
                 !.pendingUpdateIds = s.pendingUpdateIds \cup {s.patchCount + 1},
                 !.patchCount = s.patchCount + 1,
                 !.emitted = <<patchStore(ROOM, ver + 1, s.pending, s.patchCount + 1)>>,
                 !.syncTimeout = TRUE]

\* sendBatch, run with known version ver; connected: the closure has an editor
\* and a room id and the socket is connected
sendBatch(s, connected, ver) ==
  IF ~connected THEN s
  ELSE IF ~hasChanges(s.pending) THEN s
  ELSE IF s.isSending THEN s
  ELSE [s EXCEPT !.isSending = TRUE,
                 !.inflight = <<s.pending>>,
                 !.pending = EmptyBatch,
                 !.pendingUpdateIds = s.pendingUpdateIds \cup {s.patchCount + 1},
                 !.patchCount = s.patchCount + 1,
                 !.emitted = <<patchStore(ROOM, ver, s.pending, s.patchCount + 1)>>,
                 !.syncTimeout = TRUE]

\* a safety-timer callback that frees the lock and the slot and restores nothing
syncTimeoutCallbackUnlockOnly(s) ==
  [s EXCEPT !.inflight = <<>>, !.isSending = FALSE, !.isSyncing = FALSE,
            !.syncTimeout = FALSE, !.retryTimers = s.retryTimers + 1]

\* the callback of the safety timer armed by sendBatch
syncTimeoutCallback(s) ==
  [RestoreInflight(s) EXCEPT !.isSending = FALSE, !.isSyncing = FALSE,
                             !.syncTimeout = FALSE, !.retryTimers = s.retryTimers + 1]

\* edits carried by a batch
BatchEdits(b) ==
  {b.put[i].n : i \in 1..Len(b.put)} \cup {b.update[i].n : i \in 1..Len(b.update)}
    \cup {b.remove[i].n : i \in 1..Len(b.remove)}

SlotEdits(slot) == IF slot = <<>> THEN {} ELSE BatchEdits(slot[1])

(* ---------------------------- document store -------------------------- *)
\* a filter that lets every record id through
shouldApplyAll(id) == TRUE

\* the filter queueChange.shouldSync / handleStoreUpdated.shouldApply:
\* ids prefixed camera:, instance:, pointer:, instance_page_state: are local
shouldSync(id) == id \notin LocalIds

shouldApply(id) == id \notin LocalIds

Without(f, ids) == [i \in DOMAIN f \ ids |-> f[i]]

With(f, id, v) == [i \in DOMAIN f \cup {id} |-> IF i = id THEN v ELSE f[i]]

\* getStoreRecords: getSnapshot(editor.store).document.store, the records of
\* document scope (session records such as the camera are not part of it)
getStoreRecords(store) == [id \in {i \in DOMAIN store : i \notin LocalIds} |-> store[id]]

\* tldraw loadSnapshot of a store snapshot: the store's document records become
\* the snapshot's document records; the session records of the store are kept
loadSnapshot(store, records) ==
  [id \in {i \in DOMAIN records : i \notin LocalIds} \cup {i \in DOMAIN store : i \in LocalIds} |->
     IF id \in LocalIds THEN store[id] ELSE records[id]]

\* the change event of a store whose document records go from old to new
StoreDiff(old, new) ==
  [added |-> DOMAIN new \ DOMAIN old,
   updated |-> {i \in DOMAIN new \cap DOMAIN old : new[i] # old[i]},
   removed |-> DOMAIN old \ DOMAIN new]

\* record maps a server message can carry
RecordMaps == UNION {[ids -> {RemoteVal}] : ids \in SUBSET AllIds}

(* ------------------------------ local edit ---------------------------- *)
\* a save that writes nothing into the store
saveOfflineChangeNothing(entry) == <<>>

\* saveOfflineChange: the entry of (tabId, roomId) is replaced
saveOfflineChange(entry) == <<entry>>

\* the user changes record id (kind: "put" | "update" | "remove"); the store
\* listener passes the change event to queueChange
LocalEdit(id, kind) ==
  LET n == editCount + 1
      localTs == createTimestamp(CLIENT_ID, now)
      entry == [id |-> id, n |-> n]
      doc1 == IF kind = "remove" THEN Without(doc, {id}) ELSE With(doc, id, n)
      ts1 == IF ~shouldSync(id) THEN localTimestamps
             ELSE IF kind = "remove" THEN Without(localTimestamps, {id})
             ELSE With(localTimestamps, id, localTs)
      batch1 == IF ~shouldSync(id) THEN pending
                ELSE IF kind = "put" THEN [pending EXCEPT !.put = Append(@, entry)]
                ELSE IF kind = "update" THEN [pending EXCEPT !.update = Append(@, entry)]
                ELSE [pending EXCEPT !.remove = Append(@, entry)]
  IN /\ editCount < MaxEdits
     /\ kind = "put" <=> id \notin DOMAIN doc
     /\ doc' = doc1
     /\ localTimestamps' = ts1
     /\ pending' = batch1
     /\ recentlySent' = IF shouldSync(id) THEN recentlySent \cup {id} ELSE recentlySent
     /\ debounce' = IF SocketConnected THEN TRUE ELSE debounce
     /\ offline' = IF SocketConnected THEN offline
                   ELSE saveOfflineChange([snapshot |-> getStoreRecords(doc1), timestamps |-> ts1,
                                           edits |-> 1..n])
     /\ hasPendingChanges' = IF SocketConnected THEN hasPendingChanges ELSE TRUE
     /\ editCount' = n
     /\ acked' = IF shouldSync(id) THEN acked ELSE acked \cup {n}
     /\ emitted' = <<>>
     /\ retryDelay' = 0
     /\ warned' = {}
     /\ UNCHANGED partVars
     /\ storeEvent' = NoEvent
     /\ offlineAdded' = IF ~shouldSync(id) THEN offlineAdded
                        ELSE IF kind = "remove" THEN offlineAdded \ {id}
                        ELSE IF SocketConnected THEN offlineAdded
                        ELSE offlineAdded \cup {id}
     /\ UNCHANGED <<confirmSeesEditor, sock, isConnected, hasRequestedStore, version, inflight, isSending,
                    isSyncing, syncTimeout, retryTimers, conflictRetryCount,
                    pendingUpdateIds, now, patchCount>>

\* the 1 s timer of queueChange that forgets a recently sent record id
ExpireRecentlySent(id) ==
  /\ id \in recentlySent
  /\ emitted' = <<>>
  /\ retryDelay' = 0
  /\ warned' = {}
  /\ UNCHANGED partVars
  /\ storeEvent' = NoEvent
  /\ recentlySent' = recentlySent \ {id}
  /\ UNCHANGED <<confirmSeesEditor, sock, isConnected, hasRequestedStore, version, pending, inflight,
                 isSending, isSyncing, syncTimeout, debounce, retryTimers,
                 conflictRetryCount, pendingUpdateIds, doc, localTimestamps, offline,
                 hasPendingChanges, now, patchCount, editCount, acked,
                 offlineAdded>>

\* the wall clock advances
Tick ==
  /\ now < MaxTime
  /\ emitted' = <<>>
  /\ retryDelay' = 0
  /\ warned' = {}
  /\ UNCHANGED partVars
  /\ storeEvent' = NoEvent
  /\ now' = now + 1
  /\ UNCHANGED <<confirmSeesEditor, sock, isConnected, hasRequestedStore, version, pending, inflight,
                 isSending, isSyncing, syncTimeout, debounce, retryTimers,
                 conflictRetryCount, pendingUpdateIds, recentlySent, doc,
                 localTimestamps, offline, hasPendingChanges, patchCount, editCount, acked, offlineAdded>>

(* -------------------------------- timers ------------------------------ *)
\* variables no timer callback touches
TimerFrame ==
  UNCHANGED <<confirmSeesEditor, sock, isConnected, hasRequestedStore, version, conflictRetryCount,
              recentlySent, doc, localTimestamps, offline, hasPendingChanges,
              now, editCount, acked, offlineAdded>>

\* the debounce timer of queueChange fires
DebounceFire ==
  /\ debounce
  /\ WouldSend(Sender, SocketConnected) => patchCount < MaxPatches
  /\ debounce' = FALSE
  /\ retryDelay' = 0
  /\ warned' = {}
  /\ UNCHANGED partVars
  /\ storeEvent' = NoEvent
  /\ SetSender(sendBatch(Sender, SocketConnected, version))
  /\ TimerFrame

\* a retry timer (conflict backoff, or the retry after a send timeout) fires
RetryFire ==
  /\ retryTimers > 0
  /\ WouldSend(Sender, SocketConnected) => patchCount < MaxPatches
  /\ SetSender(sendBatch([Sender EXCEPT !.retryTimers = retryTimers - 1],
                         SocketConnected, version))
  /\ retryDelay' = 0
  /\ warned' = {}
  /\ UNCHANGED partVars
  /\ storeEvent' = NoEvent
  /\ UNCHANGED debounce
  /\ TimerFrame

\* the safety timer of sendBatch expires
SyncTimeoutFire ==
  /\ syncTimeout
  /\ retryTimers < MaxRetryTimers
  /\ SetSender(syncTimeoutCallback(Sender))
  /\ retryDelay' = TIMEOUT_RETRY_MS
  /\ warned' = {}
  /\ UNCHANGED partVars
  /\ storeEvent' = NoEvent
  /\ UNCHANGED debounce
  /\ TimerFrame

(* ------------------------------ connection ---------------------------- *)
\* connect(): the browser is online; initCollabSocket and socket.connect()
Connect ==
  /\ sock = "none"
  /\ emitted' = <<>>
  /\ retryDelay' = 0
  /\ warned' = {}
  /\ UNCHANGED partVars
  /\ storeEvent' = NoEvent
  /\ sock' = "connecting"
  /\ UNCHANGED <<confirmSeesEditor, isConnected, hasRequestedStore, version, pending, inflight, isSending,
                 isSyncing, syncTimeout, debounce, retryTimers, conflictRetryCount,
                 pendingUpdateIds, recentlySent, doc, localTimestamps, offline,
                 hasPendingChanges, now, patchCount, editCount, acked,
                 offlineAdded>>

\* the lock, slot and timer as connect.onConnected leaves them
onConnectedReset(s) == [s EXCEPT !.isSending = FALSE, !.inflight = <<>>, !.syncTimeout = FALSE]

\* the socket's 'connect' event: connect.onConnected, then join and store:get
OnConnected ==
  /\ sock = "connecting"
  /\ sock' = "connected"
  /\ isConnected' = TRUE
  /\ SetSender(onConnectedReset(Sender))
  /\ retryDelay' = 0
  /\ warned' = {}
  /\ UNCHANGED partVars
  /\ storeEvent' = NoEvent
  /\ hasRequestedStore' = TRUE
  /\ UNCHANGED <<confirmSeesEditor, version, debounce, conflictRetryCount, recentlySent, doc,
                 localTimestamps, offline, hasPendingChanges, now, editCount, acked,
                 offlineAdded>>

\* the socket's 'disconnect' event while the browser is online: onDisconnected,
\* then the online/offline effect calls connect() again
TransportDrop ==
  /\ sock = "connected"
  /\ emitted' = <<>>
  /\ retryDelay' = 0
  /\ warned' = {}
  /\ UNCHANGED partVars
  /\ storeEvent' = NoEvent
  /\ sock' = "connecting"
  /\ isConnected' = FALSE
  /\ hasRequestedStore' = FALSE
  /\ UNCHANGED <<confirmSeesEditor, version, pending, inflight, isSending, isSyncing, syncTimeout,
                 debounce, retryTimers, conflictRetryCount, pendingUpdateIds,
                 recentlySent, doc, localTimestamps, offline, hasPendingChanges, now,
                 patchCount, editCount, acked, offlineAdded>>

\* the browser goes offline: the effects call disconnect()
GoOffline ==
  /\ sock # "none"
  /\ emitted' = <<>>
  /\ retryDelay' = 0
  /\ warned' = {}
  \* disconnect(): setRemotePresences(new Map())
  /\ remotePresences' = EmptyMap
  /\ UNCHANGED <<mergeVars, queueVars, transportVars, presenceSender>>
  /\ storeEvent' = NoEvent
  /\ sock' = "none"
  /\ isConnected' = FALSE
  /\ hasRequestedStore' = FALSE
  /\ UNCHANGED <<confirmSeesEditor, version, pending, inflight, isSending, isSyncing, syncTimeout,
                 debounce, retryTimers, conflictRetryCount, pendingUpdateIds,
                 recentlySent, doc, localTimestamps, offline, hasPendingChanges, now,
                 patchCount, editCount, acked, offlineAdded>>

(* --------------------------- message handlers ------------------------- *)
\* handleStoreConfirmed that forgets the pending batch
storeConfirmedDropsPending(s, v, seesEditor) ==
  [s EXCEPT !.inflight = <<>>, !.isSending = FALSE, !.syncTimeout = FALSE,
            !.pending = EmptyBatch]

\* handleStoreConfirmed, on the outbox. The callback is memoized on the room id
\* alone, so the sendBatch it calls is the one of the render in which the room
\* id was set, and that one returns at once if it saw no editor (seesEditor).
storeConfirmed(s, v, seesEditor) ==
  LET s1 == [s EXCEPT !.inflight = <<>>, !.isSending = FALSE]
      s2 == IF hasChanges(s1.pending) THEN sendBatch(s1, seesEditor, v) ELSE s1
  IN [s2 EXCEPT !.syncTimeout = FALSE]

HandleStoreConfirmed(r, v) ==
  /\ sock = "connected"
  /\ retryDelay' = 0
  /\ warned' = {}
  /\ UNCHANGED partVars
  /\ storeEvent' = NoEvent
  /\ (r = ROOM /\ WouldSend([Sender EXCEPT !.isSending = FALSE], confirmSeesEditor))
       => patchCount < MaxPatches
  /\ IF r # ROOM
     THEN /\ emitted' = <<>>
          /\ UNCHANGED <<version, pending, inflight, isSending, isSyncing, syncTimeout,
                         retryTimers, conflictRetryCount, pendingUpdateIds, patchCount,
                         acked>>
     ELSE /\ version' = v
          /\ conflictRetryCount' = 0
          /\ SetSender(storeConfirmed(Sender, v, confirmSeesEditor))
          /\ acked' = acked \cup SlotEdits(inflight)
  /\ UNCHANGED <<confirmSeesEditor, sock, isConnected, hasRequestedStore, debounce, recentlySent, doc,
                 localTimestamps, offline, hasPendingChanges, now, editCount,
                 offlineAdded>>

\* handleError on VERSION_CONFLICT that gives the in-flight batch up
versionConflictDropsInflight(s) ==
  [s EXCEPT !.inflight = <<>>, !.isSending = FALSE, !.retryTimers = s.retryTimers + 1]

\* handleError with code VERSION_CONFLICT, on the outbox
versionConflict(s) ==
  [RestoreInflight(s) EXCEPT !.isSending = FALSE, !.retryTimers = s.retryTimers + 1]

\* handleError with any other code, on the outbox
otherError(s) == [s EXCEPT !.isSyncing = FALSE, !.isSending = FALSE, !.syncTimeout = FALSE]

\* a backoff that waits the first delay after every conflict
backoffFixed(k) == BACKOFF_BASE_MS

\* the delay of the retry after a conflict: Math.min(50 * Math.pow(2, k), 2000)
backoffMs(k) ==
  IF BACKOFF_BASE_MS * 2^k < BACKOFF_MAX_MS THEN BACKOFF_BASE_MS * 2^k ELSE BACKOFF_MAX_MS

\* handleError; cap bounds the consecutive-conflict counter
HandleErrorUpTo(code, cap) ==
  /\ sock = "connected"
  /\ IF code = "VERSION_CONFLICT"
     THEN /\ conflictRetryCount < cap
          /\ retryTimers < MaxRetryTimers
          /\ SetSender(versionConflict(Sender))
          /\ retryDelay' = backoffMs(conflictRetryCount)
          /\ warned' = {}
          /\ UNCHANGED partVars
          /\ storeEvent' = NoEvent
          /\ conflictRetryCount' = conflictRetryCount + 1
          /\ UNCHANGED <<sock, isConnected, hasRequestedStore>>
     ELSE IF code = "UNAUTHENTICATED"
     THEN \* setIsConnected(false) makes the online/offline effect reconnect,
          \* and the effect calls setError(null) before connect()
          /\ SetSender(otherError(Sender))
          /\ retryDelay' = 0
          /\ warned' = {}
          /\ UNCHANGED partVars
          /\ storeEvent' = NoEvent
          /\ isConnected' = FALSE
          /\ hasRequestedStore' = FALSE
          /\ sock' = "connecting"
          /\ UNCHANGED conflictRetryCount
     ELSE /\ SetSender(otherError(Sender))
          /\ retryDelay' = 0
          /\ warned' = {}
          /\ UNCHANGED partVars
          /\ storeEvent' = NoEvent
          /\ UNCHANGED <<sock, isConnected, hasRequestedStore, conflictRetryCount>>
  /\ UNCHANGED <<confirmSeesEditor, version, debounce, recentlySent, doc, localTimestamps, offline,
                 hasPendingChanges, now, editCount, acked, offlineAdded>>

HandleError(code) == HandleErrorUpTo(code, MaxConflicts)

\* the local timestamp handleStoreUpdated compares a remote record with
LocalTsOrDefault(ts, id) == IF id \in DOMAIN ts THEN ts[id] ELSE Ts(0, CLIENT_ID)

\* a put rule that also writes a remote record whose timestamp ties with the
\* local one
RemotePutsOnTie(recs, ts, recent, remoteTs) ==
  {id \in DOMAIN recs :
     /\ shouldApply(id)
     /\ id \notin recent
     /\ compareTimestamps(remoteTs, LocalTsOrDefault(ts, id)) >= 0}

\* ids of a remote update that handleStoreUpdated puts into the store
RemotePuts(recs, ts, recent, remoteTs) ==
  {id \in DOMAIN recs :
     /\ shouldApply(id)
     /\ id \notin recent
     /\ compareTimestamps(remoteTs, LocalTsOrDefault(ts, id)) > 0}

\* ids handleStoreUpdated removes as remote deletions
RemoteRemovals(recs, store, ts, remoteTs) ==
  {id \in DOMAIN store :
     /\ shouldApply(id)
     /\ id \notin DOMAIN recs
     /\ id \in DOMAIN ts
     /\ compareTimestamps(remoteTs, ts[id]) > 0}

\* a check of the updateId that recognises no echo
IsEchoNever(uid, ids) == FALSE

\* the update carries the updateId of a patch this client sent
IsEcho(uid, ids) == uid # NoUpdateId /\ uid \in ids

\* a version test that lets every update through
versionAheadAlways(v, known) == TRUE

\* data.version > versionRef.current: the update is ahead of the known version
versionAhead(v, known) == v > known

\* a loop that stops at the first record whose put or removal throws
AppliedUntilFailure(ids, bad) == IF ids \cap bad = {} THEN ids ELSE {}

\* the ids of a loop of handleStoreUpdated whose put or removal does not throw:
\* the try/catch inside the loop skips the others
Applied(ids, bad) == ids \ bad

\* handleStoreUpdated; bad: the ids whose put or removal the store rejects
HandleStoreUpdatedFailing(r, v, recs, uid, bad) ==
  /\ sock = "connected"
  /\ emitted' = <<>>
  /\ retryDelay' = 0
  /\ UNCHANGED partVars
  /\ IF r # ROOM
     THEN UNCHANGED <<version, isSyncing, syncTimeout, conflictRetryCount,
                      pendingUpdateIds, doc, localTimestamps, offlineAdded>>
     ELSE IF IsEcho(uid, pendingUpdateIds)
     THEN /\ pendingUpdateIds' = pendingUpdateIds \ {uid}
          /\ isSyncing' = FALSE
          /\ conflictRetryCount' = 0
          /\ syncTimeout' = FALSE
          /\ UNCHANGED <<version, doc, localTimestamps, offlineAdded>>
     ELSE IF v = version
     THEN /\ isSyncing' = FALSE
          /\ conflictRetryCount' = 0
          /\ syncTimeout' = FALSE
          /\ UNCHANGED <<version, pendingUpdateIds, doc, localTimestamps, offlineAdded>>
     ELSE IF versionAhead(v, version)
     THEN LET remoteTs == createTimestamp("remote", now)
              tryPuts == RemotePuts(recs, localTimestamps, recentlySent, remoteTs)
              puts == Applied(tryPuts, bad)
              doc1 == [id \in DOMAIN doc \cup puts |-> IF id \in puts THEN recs[id] ELSE doc[id]]
              ts1 == [id \in DOMAIN localTimestamps \cup puts |->
                        IF id \in puts THEN remoteTs ELSE localTimestamps[id]]
              tryDels == RemoteRemovals(recs, doc1, ts1, remoteTs)
              dels == Applied(tryDels, bad)
          IN /\ doc' = Without(doc1, dels)
             /\ warned' = (tryPuts \cup tryDels) \cap bad
             /\ localTimestamps' = Without(ts1, dels)
             /\ version' = v
             /\ syncTimeout' = FALSE
             /\ isSyncing' = FALSE
             /\ offlineAdded' = offlineAdded \ dels
             /\ UNCHANGED <<conflictRetryCount, pendingUpdateIds>>
     ELSE UNCHANGED <<version, isSyncing, syncTimeout, conflictRetryCount,
                      pendingUpdateIds, doc, localTimestamps, offlineAdded>>
  /\ (r # ROOM \/ IsEcho(uid, pendingUpdateIds) \/ v <= version) => warned' = {}
  \* the puts run inside mergeRemoteChanges; store.remove does not
  /\ storeEvent' = [NoEvent EXCEPT !.removed = DOMAIN getStoreRecords(doc) \ DOMAIN doc']
  /\ UNCHANGED <<confirmSeesEditor, sock, isConnected, hasRequestedStore, pending, inflight, isSending,
                 debounce, retryTimers, recentlySent, offline, hasPendingChanges,
                 now, patchCount, editCount, acked>>

\* handleStoreUpdated when the store accepts every record
HandleStoreUpdated(r, v, recs, uid) == HandleStoreUpdatedFailing(r, v, recs, uid, {})

\* a handleStoreState that loads the server's records and ignores the offline entry
StoreStateServerOnly(off, recs, ts, t) == [records |-> recs, timestamps |-> ts]

\* the records handleStoreState loads and the timestamps it keeps
StoreStateMerge(off, recs, ts, t) ==
  IF off = <<>> THEN [records |-> recs, timestamps |-> ts]
  ELSE mergeWithLWW(off[1].snapshot, off[1].timestamps, recs,
                    [id \in DOMAIN recs |-> createTimestamp("server", t)], CLIENT_ID, t)

HandleStoreState(r, v, recs) ==
  /\ sock = "connected"
  /\ emitted' = <<>>
  /\ retryDelay' = 0
  /\ warned' = {}
  /\ UNCHANGED partVars
  /\ IF r # ROOM
     THEN UNCHANGED <<version, isSyncing, syncTimeout, doc, localTimestamps, offline,
                      hasPendingChanges>>
     ELSE LET m == StoreStateMerge(offline, recs, localTimestamps, now)
          IN /\ localTimestamps' = m.timestamps
             /\ doc' = IF DOMAIN m.records # {} THEN loadSnapshot(doc, m.records) ELSE doc
             /\ version' = v
             /\ offline' = <<>>
             /\ hasPendingChanges' = FALSE
             /\ isSyncing' = FALSE
             /\ syncTimeout' = FALSE
  \* loadSnapshot runs outside mergeRemoteChanges
  /\ storeEvent' = StoreDiff(getStoreRecords(doc), getStoreRecords(doc'))
  /\ UNCHANGED <<confirmSeesEditor, sock, isConnected, hasRequestedStore, pending, inflight, isSending,
                 debounce, retryTimers, conflictRetryCount, pendingUpdateIds,
                 recentlySent, now, patchCount, editCount, acked,
                 offlineAdded>>

\* ids in the order the entries of a change event are walked
IdOrder == <<"shape:1", "shape:2", "camera:1">>

InOrder(ids) == SelectSeq(IdOrder, LAMBDA i : i \in ids)

\* batch entries queueChange makes of the ids of a change event that was not
\* made by a user edit
EventEntries(ids) ==
  LET q == InOrder({i \in ids : shouldSync(i)})
  IN [k \in 1..Len(q) |-> [id |-> q[k], n |-> 0]]

\* The store delivers the change event of the engine's own writes to the store
\* listener once the handler that wrote has returned (isApplyingRemoteRef is
\* false again); the event has source 'user', so the listener passes it to
\* queueChange.
StoreListener ==
  LET ev == storeEvent
      localTs == createTimestamp(CLIENT_ID, now)
      stamped == {i \in ev.added \cup ev.updated : shouldSync(i)}
      dropped == {i \in ev.removed : shouldSync(i)}
      ts1 == [i \in (DOMAIN localTimestamps \cup stamped) \ dropped |->
                IF i \in stamped THEN localTs ELSE localTimestamps[i]]
  IN /\ storeEvent # NoEvent
     /\ pending' = [put |-> pending.put \o EventEntries(ev.added),
                    update |-> pending.update \o EventEntries(ev.updated),
                    remove |-> pending.remove \o EventEntries(ev.removed)]
     /\ localTimestamps' = ts1
     /\ recentlySent' = recentlySent \cup stamped \cup dropped
     /\ debounce' = IF SocketConnected THEN TRUE ELSE debounce
     /\ offline' = IF SocketConnected THEN offline
                   ELSE saveOfflineChange([snapshot |-> getStoreRecords(doc), timestamps |-> ts1,
                                           edits |-> 1..editCount])
     /\ hasPendingChanges' = IF SocketConnected THEN hasPendingChanges ELSE TRUE
     /\ emitted' = <<>>
     /\ retryDelay' = 0
     /\ warned' = {}
     /\ UNCHANGED partVars
     /\ storeEvent' = NoEvent
     /\ UNCHANGED <<confirmSeesEditor, sock, isConnected, hasRequestedStore, version, inflight,
                    isSending, isSyncing, syncTimeout, retryTimers, conflictRetryCount,
                    pendingUpdateIds, doc, now, patchCount, editCount, acked, offlineAdded>>

(* ----------------------------- collab server -------------------------- *)
\* messages the server sends to this client
StoreStateMsg(v) == [type |-> "store:state", version |-> v]

StoreUpdatedMsg(v) == [type |-> "store:updated", version |-> v]

StoreConfirmedMsg(v) == [type |-> "store:confirmed", version |-> v]

ErrorMsg(code) == [type |-> "error", code |-> code]

\* the server's answer to a store:patch: it accepts a patch whose baseVersion is
\* the room's version and confirms the next version, and rejects any other
ServerReply(patch, roomVersion) ==
  IF patch.baseVersion = roomVersion THEN StoreConfirmedMsg(roomVersion + 1)
  ELSE ErrorMsg("VERSION_CONFLICT")

\* the server receives the store:patch the engine put on the wire
ServerReceive ==
  /\ emitted # <<>>
  /\ s2c' = Append(s2c, ServerReply(emitted[1], srvVersion))
  /\ srvVersion' = IF emitted[1].baseVersion = srvVersion THEN srvVersion + 1 ELSE srvVersion
  /\ emitted' = <<>>
  /\ retryDelay' = 0
  /\ warned' = {}
  /\ UNCHANGED partVars
  /\ storeEvent' = NoEvent
  /\ UNCHANGED <<confirmSeesEditor, sock, isConnected, hasRequestedStore, version, pending, inflight,
                 isSending, isSyncing, syncTimeout, debounce, retryTimers,
                 conflictRetryCount, pendingUpdateIds, recentlySent, doc,
                 localTimestamps, offline, hasPendingChanges, now, patchCount,
                 editCount, acked, offlineAdded>>

\* another participant's patch is accepted; the server broadcasts store:updated
OtherClientPatch ==
  /\ emitted = <<>>
  /\ srvVersion < MaxVersion
  /\ srvVersion' = srvVersion + 1
  /\ s2c' = IF sock = "connected" THEN Append(s2c, StoreUpdatedMsg(srvVersion + 1)) ELSE s2c
  /\ retryDelay' = 0
  /\ warned' = {}
  /\ UNCHANGED partVars
  /\ storeEvent' = NoEvent
  /\ UNCHANGED <<confirmSeesEditor, sock, isConnected, hasRequestedStore, version, pending, inflight,
                 isSending, isSyncing, syncTimeout, debounce, retryTimers,
                 conflictRetryCount, pendingUpdateIds, recentlySent, doc,
                 localTimestamps, offline, hasPendingChanges, now, patchCount,
                 editCount, acked, offlineAdded, emitted>>

\* the socket connects: onConnected joins the room and asks for the store, the
\* socket's connect listener then joins the room it is in once more, and the
\* server answers each request with store:state
ServerOnConnected ==
  /\ emitted = <<>>
  /\ OnConnected
  /\ s2c' = <<StoreStateMsg(srvVersion), StoreStateMsg(srvVersion), StoreStateMsg(srvVersion)>>
  /\ UNCHANGED srvVersion

\* the browser goes offline: what the server had sent and was not received is lost
ServerGoOffline ==
  /\ emitted = <<>>
  /\ GoOffline
  /\ s2c' = <<>>
  /\ UNCHANGED srvVersion

\* the socket delivers the server's oldest message to its handler
Deliver(type) ==
  /\ emitted = <<>>
  /\ s2c # <<>>
  /\ Head(s2c).type = type
  /\ s2c' = Tail(s2c)
  /\ UNCHANGED srvVersion

DeliverStoreState == Deliver("store:state") /\ HandleStoreState(ROOM, Head(s2c).version, EmptyMap)

DeliverStoreUpdated ==
  Deliver("store:updated") /\ HandleStoreUpdated(ROOM, Head(s2c).version, EmptyMap, NoUpdateId)

DeliverStoreConfirmed == Deliver("store:confirmed") /\ HandleStoreConfirmed(ROOM, Head(s2c).version)

DeliverError == Deliver("error") /\ HandleError(Head(s2c).code)

(* ---------------------------- specification --------------------------- *)
Versions == 0..MaxVersion

Kinds == {"put", "update", "remove"}

UpdateIds == pendingUpdateIds \cup {NoUpdateId, ForeignUpdateId}

\* The outbox protocol, with the server left open: any handler may run at any
\* time with any version. The sender lock, the in-flight slot, the timers and
\* the version never read a record's content, so this specification lets the
\* user edit one record and the server send empty record maps. An echoed
\* updateId changes the outbox no more than an update of the known version
\* does; echoes are left to SpecRemote.
OutboxIds == {"shape:1"}

Next ==
  \/ (\E id \in OutboxIds, kind \in Kinds : LocalEdit(id, kind)) /\ UNCHANGED serverVars
  \/ DebounceFire /\ UNCHANGED serverVars
  \/ RetryFire /\ UNCHANGED serverVars
  \/ SyncTimeoutFire /\ UNCHANGED serverVars
  \/ Connect /\ UNCHANGED serverVars
  \/ OnConnected /\ UNCHANGED serverVars
  \/ TransportDrop /\ UNCHANGED serverVars
  \/ (\E v \in Versions : HandleStoreConfirmed(ROOM, v)) /\ UNCHANGED serverVars
  \/ (\E code \in ErrorCodes : HandleError(code)) /\ UNCHANGED serverVars
  \/ (\E v \in Versions : HandleStoreUpdated(ROOM, v, EmptyMap, NoUpdateId))
       /\ UNCHANGED serverVars
  \/ (\E v \in Versions : HandleStoreState(ROOM, v, EmptyMap)) /\ UNCHANGED serverVars

Spec == Init /\ [][Next]_vars

\* Offline replay: edits of every record kind made offline and online, the
\* clock, and snapshots carrying every record map.
NextOffline ==
  \/ (\E id \in AllIds, kind \in Kinds : editCount < MaxDocEdits /\ LocalEdit(id, kind))
       /\ UNCHANGED serverVars
  \/ Tick /\ UNCHANGED serverVars
  \/ Connect /\ UNCHANGED serverVars
  \/ OnConnected /\ UNCHANGED serverVars
  \/ GoOffline /\ UNCHANGED serverVars
  \/ (\E v \in Versions, recs \in RecordMaps : HandleStoreState(ROOM, v, recs))
       /\ UNCHANGED serverVars

SpecOffline == Init /\ [][NextOffline]_vars

\* Remote updates: local edits and their patches, and store:updated messages
\* carrying every record map and every updateId the engine can tell apart. The
\* server echoes the updateId of a patch at most once.
NextRemote ==
  \/ (\E id \in AllIds, kind \in Kinds : editCount < MaxDocEdits /\ LocalEdit(id, kind))
       /\ UNCHANGED serverVars
  \/ (\E id \in AllIds : ExpireRecentlySent(id)) /\ UNCHANGED serverVars
  \/ Tick /\ UNCHANGED serverVars
  \/ DebounceFire /\ UNCHANGED serverVars
  \/ Connect /\ UNCHANGED serverVars
  \/ OnConnected /\ UNCHANGED serverVars
  \/ (\E v \in Versions, recs \in RecordMaps, uid \in UpdateIds :
        HandleStoreUpdated(ROOM, v, recs, uid)) /\ UNCHANGED serverVars

SpecRemote == Init /\ [][NextRemote]_vars

\* The engine closed with the collab server: the server answers join and
\* store:get with store:state and every store:patch with store:confirmed or a
\* VERSION_CONFLICT error, other participants advance the room's version, and
\* messages reach the engine in the order sent.
NextServer ==
  \/ emitted = <<>> /\ (\E id \in OutboxIds, kind \in Kinds : LocalEdit(id, kind))
       /\ UNCHANGED serverVars
  \/ emitted = <<>> /\ DebounceFire /\ UNCHANGED serverVars
  \/ emitted = <<>> /\ RetryFire /\ UNCHANGED serverVars
  \/ emitted = <<>> /\ SyncTimeoutFire /\ UNCHANGED serverVars
  \/ emitted = <<>> /\ Connect /\ UNCHANGED serverVars
  \/ ServerOnConnected
  \/ ServerGoOffline
  \/ ServerReceive
  \/ OtherClientPatch
  \/ DeliverStoreState
  \/ DeliverStoreUpdated
  \/ DeliverStoreConfirmed
  \/ DeliverError

SpecServer == Init /\ [][NextServer]_vars

\* The conflict backoff against the collab server: the engine closed with the
\* server as in SpecServer, with answers that always arrive before the safety
\* timer expires, so that every retry timer alive is the backoff of a conflict.
NextConflict ==
  \/ emitted = <<>> /\ (\E id \in OutboxIds, kind \in Kinds : LocalEdit(id, kind))
       /\ UNCHANGED serverVars
  \/ emitted = <<>> /\ DebounceFire /\ UNCHANGED serverVars
  \/ emitted = <<>> /\ RetryFire /\ UNCHANGED serverVars
  \/ emitted = <<>> /\ Connect /\ UNCHANGED serverVars
  \/ ServerOnConnected
  \/ ServerReceive
  \/ OtherClientPatch
  \/ DeliverStoreState
  \/ DeliverStoreUpdated
  \/ DeliverStoreConfirmed
  \/ DeliverError

SpecConflict == Init /\ [][NextConflict]_vars

\* The conflict backoff: one edit and its patches, with the server rejecting
\* and confirming at will, and the consecutive-conflict counter running up to
\* where the delay reaches its cap.
NextBackoff ==
  \/ (\E id \in OutboxIds, kind \in Kinds : editCount < MaxDocEdits /\ LocalEdit(id, kind))
       /\ UNCHANGED serverVars
  \/ DebounceFire /\ UNCHANGED serverVars
  \/ RetryFire /\ UNCHANGED serverVars
  \/ Connect /\ UNCHANGED serverVars
  \/ OnConnected /\ UNCHANGED serverVars
  \/ (\E v \in Versions : HandleStoreConfirmed(ROOM, v)) /\ UNCHANGED serverVars
  \/ HandleErrorUpTo("VERSION_CONFLICT", MaxBackoffSteps) /\ UNCHANGED serverVars

SpecBackoff == Init /\ [][NextBackoff]_vars

\* record maps of document records a server message can carry
SyncRecordMaps == UNION {[ids -> {RemoteVal}] : ids \in SUBSET SyncIds}

\* Offline replay of document records: edits of the document records made
\* offline and online, the clock, and snapshots carrying document records.
NextReplay ==
  \/ (\E id \in SyncIds, kind \in Kinds : editCount < MaxDocEdits /\ LocalEdit(id, kind))
       /\ UNCHANGED serverVars
  \/ Tick /\ UNCHANGED serverVars
  \/ Connect /\ UNCHANGED serverVars
  \/ OnConnected /\ UNCHANGED serverVars
  \/ GoOffline /\ UNCHANGED serverVars
  \/ (\E v \in Versions, recs \in SyncRecordMaps : HandleStoreState(ROOM, v, recs))
       /\ UNCHANGED serverVars

SpecReplay == Init /\ [][NextReplay]_vars

\* one document record and one session record, and the record maps over them
KindIds == {"shape:1", "camera:1"}

KindRecordMaps == UNION {[ids -> {RemoteVal}] : ids \in SUBSET KindIds}

\* Records of every kind against the server's data: edits of a document and of
\* a session record made online and offline, their patches, and store:updated
\* and store:state messages carrying every map of these records.
NextKinds ==
  \/ (\E id \in KindIds, kind \in Kinds : editCount < MaxDocEdits /\ LocalEdit(id, kind))
       /\ UNCHANGED serverVars
  \/ DebounceFire /\ UNCHANGED serverVars
  \/ Connect /\ UNCHANGED serverVars
  \/ OnConnected /\ UNCHANGED serverVars
  \/ GoOffline /\ UNCHANGED serverVars
  \/ (\E v \in Versions, recs \in KindRecordMaps :
        HandleStoreUpdated(ROOM, v, recs, NoUpdateId)) /\ UNCHANGED serverVars
  \/ (\E v \in Versions, recs \in KindRecordMaps : HandleStoreState(ROOM, v, recs))
       /\ UNCHANGED serverVars

SpecKinds == Init /\ [][NextKinds]_vars

\* The store listener against the engine's own writes: local edits and their
\* patches, store:updated and store:state messages that put, load and remove
\* records, and the store's delivery of the change events of those writes.
\* number of entries of the outbox batch
QueuedEntries == Len(pending.put) + Len(pending.update) + Len(pending.remove)

NextGuard ==
  \/ (\E id \in KindIds, kind \in Kinds : editCount < MaxDocEdits /\ LocalEdit(id, kind))
       /\ UNCHANGED serverVars
  \/ DebounceFire /\ UNCHANGED serverVars
  \/ Connect /\ UNCHANGED serverVars
  \/ OnConnected /\ UNCHANGED serverVars
  \/ (\E v \in Versions, recs \in KindRecordMaps :
        HandleStoreUpdated(ROOM, v, recs, NoUpdateId)) /\ UNCHANGED serverVars
  \/ (\E v \in Versions, recs \in KindRecordMaps : HandleStoreState(ROOM, v, recs))
       /\ UNCHANGED serverVars
  \/ (QueuedEntries < MaxQueued /\ StoreListener) /\ UNCHANGED serverVars

SpecGuard == Init /\ [][NextGuard]_vars

\* Remote updates of document records: local edits, the echo-suppression
\* window, the clock, store:updated messages carrying every map of document
\* records, and store:state messages that load a snapshot and set the known
\* version.
NextUpdate ==
  \/ (\E kind \in Kinds : editCount < MaxDocEdits /\ LocalEdit("shape:1", kind))
       /\ UNCHANGED serverVars
  \/ (\E id \in SyncIds : ExpireRecentlySent(id)) /\ UNCHANGED serverVars
  \/ Tick /\ UNCHANGED serverVars
  \/ Connect /\ UNCHANGED serverVars
  \/ OnConnected /\ UNCHANGED serverVars
  \/ (\E v \in Versions, recs \in SyncRecordMaps :
        HandleStoreUpdated(ROOM, v, recs, NoUpdateId)) /\ UNCHANGED serverVars
  \/ (\E v \in Versions, recs \in SyncRecordMaps :
        HandleStoreState(ROOM, v, recs)) /\ UNCHANGED serverVars

SpecUpdate == Init /\ [][NextUpdate]_vars

\* Remote updates some of whose records the store rejects: a local edit, the
\* echo-suppression window, the clock, and store:updated messages with every
\* map of document records and every set of rejected ids.
NextFailing ==
  \/ (\E kind \in Kinds : editCount < MaxDocEdits /\ LocalEdit("shape:1", kind))
       /\ UNCHANGED serverVars
  \/ (\E id \in SyncIds : ExpireRecentlySent(id)) /\ UNCHANGED serverVars
  \/ Tick /\ UNCHANGED serverVars
  \/ Connect /\ UNCHANGED serverVars
  \/ OnConnected /\ UNCHANGED serverVars
  \/ (\E v \in Versions, recs \in SyncRecordMaps, bad \in SUBSET SyncIds :
        HandleStoreUpdatedFailing(ROOM, v, recs, NoUpdateId, bad)) /\ UNCHANGED serverVars

SpecFailing == Init /\ [][NextFailing]_vars

(* --------------------------- mergeWithLWW alone ----------------------- *)
\* the variables of the engine
engineVars ==
  <<sock, isConnected, hasRequestedStore, version, pending, inflight, isSending,
    isSyncing, syncTimeout, debounce, retryTimers, retryDelay, storeEvent, conflictRetryCount,
    pendingUpdateIds, recentlySent, doc, localTimestamps, offline,
    hasPendingChanges, patchCount, editCount, acked,
    offlineAdded, emitted, confirmSeesEditor, warned>>

\* content of a local record in the calls of mergeWithLWW made on their own
LocalVal == 1

\* logical timestamps of the arguments: the earliest and the latest time, stamped
\* by this client or by the remote side
MergeStamps == {Ts(t, c) : t \in {0, MaxTime}, c \in {CLIENT_ID, "remote"}}

\* timestamp maps: any id may have no entry
MergeTimestampMaps == UNION {[ids -> MergeStamps] : ids \in SUBSET SyncIds}

\* the arguments of mergeWithLWW: local records and timestamps, remote records
\* and timestamps
MergeInputs ==
  [lr : UNION {[ids -> {LocalVal}] : ids \in SUBSET SyncIds}, lts : MergeTimestampMaps,
   rr : SyncRecordMaps, rts : MergeTimestampMaps]

InitMerge ==
  /\ InitEngine
  /\ QueueEmpty
  /\ TransportNew
  /\ PresenceNew
  /\ mergeIn \in MergeInputs
  /\ mergeOut = <<>>

\* mergeWithLWW(localRecords, localTimestamps, remoteRecords, remoteTimestamps,
\* localClientId), run at the current wall-clock time
MergeCall ==
  /\ mergeOut' = <<[call |-> "merge",
                    result |-> mergeWithLWW(mergeIn.lr, mergeIn.lts, mergeIn.rr, mergeIn.rts,
                                            CLIENT_ID, now)]>>
  /\ UNCHANGED <<engineVars, serverVars, now, mergeIn, queueVars, transportVars, presenceVars>>

\* mergeWithLWW of the local records and timestamps with themselves
MergeSelfCall ==
  /\ mergeOut' = <<[call |-> "self",
                    result |-> mergeWithLWW(mergeIn.lr, mergeIn.lts, mergeIn.lr, mergeIn.lts,
                                            CLIENT_ID, now)]>>
  /\ UNCHANGED <<engineVars, serverVars, now, mergeIn, queueVars, transportVars, presenceVars>>

NextMerge ==
  \/ MergeCall
  \/ MergeSelfCall
  \/ Tick /\ UNCHANGED serverVars

SpecMerge == InitMerge /\ [][NextMerge]_vars

\* The two merge paths on the same records: the put rule of handleStoreUpdated
\* (remote records stamped with Date.now() and 'remote', recent being the ids in
\* the echo-suppression window) and mergeWithLWW with the remote records under
\* that same timestamp
BothPathsCall(recent) ==
  LET remoteTs == createTimestamp("remote", now)
  IN /\ mergeOut' = <<[call |-> "paths", recent |-> recent, remoteTs |-> remoteTs,
                       puts |-> RemotePuts(mergeIn.rr, mergeIn.lts, recent, remoteTs),
                       result |-> mergeWithLWW(mergeIn.lr, mergeIn.lts, mergeIn.rr,
                                               [id \in DOMAIN mergeIn.rr |-> remoteTs],
                                               CLIENT_ID, now)]>>
     /\ UNCHANGED <<engineVars, serverVars, now, mergeIn, queueVars, transportVars, presenceVars>>

NextPaths ==
  \/ \E recent \in SUBSET SyncIds : BothPathsCall(recent)
  \/ Tick /\ UNCHANGED serverVars

SpecPaths == InitMerge /\ [][NextPaths]_vars

\* client ids of logical timestamps: this client, the two the engine stamps
\* remote records with, and the one toLogicalTimestamp falls back to
StampClientIds == {CLIENT_ID, "remote", "server", "unknown"}

\* logical timestamps compareTimestamps is called with
CompareStamps == {Ts(t, c) : t \in 0..MaxTime, c \in StampClientIds}

InitCompare ==
  /\ InitEngine
  /\ QueueEmpty
  /\ TransportNew
  /\ PresenceNew
  /\ mergeIn \in [a : CompareStamps, b : CompareStamps, c : CompareStamps]
  /\ mergeOut = <<>>

\* compareTimestamps on the pairs of three timestamps
CompareCall ==
  /\ mergeOut' = <<[call |-> "compare",
                    ab |-> compareTimestamps(mergeIn.a, mergeIn.b),
                    ba |-> compareTimestamps(mergeIn.b, mergeIn.a),
                    bc |-> compareTimestamps(mergeIn.b, mergeIn.c),
                    ac |-> compareTimestamps(mergeIn.a, mergeIn.c)]>>
  /\ UNCHANGED <<engineVars, serverVars, now, mergeIn, queueVars, transportVars, presenceVars>>

NextCompare == CompareCall

SpecCompare == InitCompare /\ [][NextCompare]_vars

(* ------------------------- offline queue store ------------------------ *)
\* tab (document) ids whose entries share the store
Tabs == {"tab-1", "tab-2"}

\* an entry of the store; savedAt stands for what was saved: the snapshot and
\* the timestamps captured at that time
OfflineChange(tabId, roomId, savedAt) == [tabId |-> tabId, roomId |-> roomId, timestamp |-> savedAt]

\* changes.findIndex(c => c.tabId === change.tabId && c.roomId === change.roomId),
\* 0 for -1
FindIndex(changes, change) ==
  LET hits == {i \in 1..Len(changes) :
                 changes[i].tabId = change.tabId /\ changes[i].roomId = change.roomId}
  IN IF hits = {} THEN 0 ELSE CHOOSE i \in hits : \A j \in hits : i <= j

\* a save that always appends the entry
saveAppends(changes, change) == Append(changes, change)

\* saveOfflineChange, on the parsed content of the store
saveOfflineChangeTo(changes, change) ==
  IF FindIndex(changes, change) > 0
  THEN [changes EXCEPT ![FindIndex(changes, change)] = change]
  ELSE Append(changes, change)

\* clearOfflineChanges, on the parsed content of the store
clearOfflineChangesOf(changes, roomId) == SelectSeq(changes, LAMBDA c : c.roomId # roomId)

\* saveOfflineChange(change) at wall-clock time t, later than every save so far
SaveOffline(tabId, roomId, t) ==
  /\ \A i \in 1..Len(queueStore) : queueStore[i].timestamp < t
  /\ queueStore' = saveOfflineChangeTo(queueStore, OfflineChange(tabId, roomId, t))
  /\ UNCHANGED <<engineVars, serverVars, now, mergeVars, transportVars, presenceVars>>

\* clearOfflineChanges(roomId)
ClearOffline(roomId) ==
  /\ queueStore' = clearOfflineChangesOf(queueStore, roomId)
  /\ UNCHANGED <<engineVars, serverVars, now, mergeVars, transportVars, presenceVars>>

NextQueue ==
  \/ \E tabId \in Tabs, roomId \in Rooms, t \in 1..MaxSaves : SaveOffline(tabId, roomId, t)
  \/ \E roomId \in Rooms : ClearOffline(roomId)

SpecQueue == Init /\ [][NextQueue]_vars

(* ------------------------- CollabSocket alone ------------------------- *)
\* this.socket?.connected
ThisSocketConnected == socketRef # 0 /\ ioSockets[socketRef] = "connected"

\* what no method of CollabSocket touches
TransportFrame == UNCHANGED <<engineVars, serverVars, now, mergeVars, queueVars, presenceVars>>

\* CollabSocket.connect(): returns if this.socket is connected, else replaces
\* this.socket with a new io() socket and attaches the listeners to it
TConnect ==
  /\ ~ThisSocketConnected => Len(ioSockets) < MaxSockets
  /\ IF ThisSocketConnected
     THEN UNCHANGED <<ioSockets, socketRef>>
     ELSE /\ ioSockets' = Append(ioSockets, "connecting")
          /\ socketRef' = Len(ioSockets) + 1
  /\ joinsSent' = <<>>
  /\ UNCHANGED <<currentRoomId, joinRequested>>
  /\ TransportFrame

\* the room ids join(roomId) emits, given this.socket?.connected
joinEmits(connected, roomId) == IF connected THEN <<roomId>> ELSE <<>>

\* CollabSocket.join(roomId)
TJoin(roomId) ==
  /\ currentRoomId' = IF ThisSocketConnected THEN roomId ELSE currentRoomId
  /\ joinsSent' = joinEmits(ThisSocketConnected, roomId)
  /\ joinRequested' = roomId
  /\ UNCHANGED <<ioSockets, socketRef>>
  /\ TransportFrame

\* CollabSocket.leave()
TLeave ==
  /\ currentRoomId' = NoRoom
  /\ joinsSent' = <<>>
  /\ joinRequested' = NoRoom
  /\ UNCHANGED <<ioSockets, socketRef>>
  /\ TransportFrame

\* CollabSocket.disconnect()
TDisconnect ==
  /\ IF socketRef # 0
     THEN /\ ioSockets' = [ioSockets EXCEPT ![socketRef] = "closed"]
          /\ socketRef' = 0
          /\ currentRoomId' = NoRoom
     ELSE UNCHANGED <<ioSockets, socketRef, currentRoomId>>
  /\ joinsSent' = <<>>
  /\ joinRequested' = NoRoom
  /\ TransportFrame

\* the 'connect' event of socket i: its listener calls onConnected and rejoins
\* the current room, through this.socket
TSocketConnects(i) ==
  /\ ioSockets[i] = "connecting"
  /\ ioSockets' = [ioSockets EXCEPT ![i] = "connected"]
  /\ joinsSent' = IF currentRoomId = NoRoom THEN <<>>
                  ELSE joinEmits(socketRef # 0 /\ ioSockets'[socketRef] = "connected", currentRoomId)
  /\ UNCHANGED <<socketRef, currentRoomId, joinRequested>>
  /\ TransportFrame

\* the 'disconnect' event of socket i; socket.io then tries to reconnect it
TSocketDrops(i) ==
  /\ ioSockets[i] = "connected"
  /\ ioSockets' = [ioSockets EXCEPT ![i] = "connecting"]
  /\ joinsSent' = <<>>
  /\ UNCHANGED <<socketRef, currentRoomId, joinRequested>>
  /\ TransportFrame

NextTransport ==
  \/ TConnect
  \/ \E roomId \in Rooms : TJoin(roomId)
  \/ TLeave
  \/ TDisconnect
  \/ \E i \in 1..Len(ioSockets) : TSocketConnects(i)
  \/ \E i \in 1..Len(ioSockets) : TSocketDrops(i)

SpecTransport == Init /\ [][NextTransport]_vars

(* ------------------------------ presence ------------------------------ *)
\* participants whose presence:updated messages arrive: another one and this client
Participants == {"p1", CLIENT_ID}

\* what the presence handlers leave of the engine and of the other parts
PresenceFrame ==
  /\ emitted' = <<>>
  /\ retryDelay' = 0
  /\ storeEvent' = NoEvent
  /\ warned' = {}
  /\ UNCHANGED <<sock, isConnected, hasRequestedStore, version, pending, inflight, isSending,
                 isSyncing, syncTimeout, debounce, retryTimers, conflictRetryCount,
                 pendingUpdateIds, recentlySent, doc, localTimestamps, offline,
                 hasPendingChanges, now, patchCount, editCount, acked, offlineAdded,
                 confirmSeesEditor, serverVars, mergeVars, queueVars, transportVars>>

\* d ms pass; a cleanup that is due runs first
AdvanceClock(d) ==
  /\ clockMs < sweepAt
  /\ clockMs' = clockMs + d
  /\ UNCHANGED <<engineVars, serverVars, now, mergeVars, queueVars, transportVars,
                 remotePresences, sweepAt, lastPresenceUpdate, cursorCount, presenceSent>>

\* handlePresenceUpdated: the entry of the participant is set, stamped with Date.now()
HandlePresenceUpdated(r, odId) ==
  /\ sock = "connected"
  /\ remotePresences' = IF r # ROOM \/ odId = CLIENT_ID THEN remotePresences
                        ELSE With(remotePresences, odId, [lastUpdated |-> clockMs])
  /\ UNCHANGED presenceSender
  /\ PresenceFrame

\* an entry the cleanup deletes
IsStale(entry, t) == t - entry.lastUpdated > PRESENCE_STALE_MS

\* the callback of the cleanup interval
SweepPresences ==
  /\ clockMs >= sweepAt
  /\ remotePresences' =
       Without(remotePresences, {p \in DOMAIN remotePresences : IsStale(remotePresences[p], clockMs)})
  /\ sweepAt' = sweepAt + PRESENCE_SWEEP_MS
  /\ UNCHANGED <<clockMs, lastPresenceUpdate, cursorCount, presenceSent>>
  /\ PresenceFrame

\* the presence map over time: the socket connects, presence:updated messages
\* arrive, seconds pass and the cleanup runs every five of them
NextStale ==
  \/ Connect /\ UNCHANGED serverVars
  \/ OnConnected /\ UNCHANGED serverVars
  \/ \E r \in Rooms, odId \in Participants : HandlePresenceUpdated(r, odId)
  \/ (clockMs < MOUNT_MS + 1000 * MaxSweepSeconds /\ AdvanceClock(1000))
  \/ SweepPresences

SpecStale == Init /\ [][NextStale]_vars

\* a sender that ignores the throttle
presenceAllowedUnthrottled(connected, last, t) == connected

\* sendPresence goes on to emit: the socket is connected and the last emitted
\* update is at least a throttle interval old
presenceAllowed(connected, last, t) == connected /\ ~(t - last < PRESENCE_THROTTLE_MS)

\* a pointer move: sendPresence(cursor) with the next cursor position
SendPresence ==
  LET cursor == cursorCount + 1
      send == presenceAllowed(SocketConnected, lastPresenceUpdate, clockMs)
  IN /\ cursorCount < MaxCursors
     /\ cursorCount' = cursor
     /\ lastPresenceUpdate' = IF send THEN clockMs ELSE lastPresenceUpdate
     /\ presenceSent' = IF send THEN Append(presenceSent, cursor) ELSE presenceSent
     /\ UNCHANGED <<clockMs, sweepAt, remotePresences>>
     /\ PresenceFrame

\* the presence sender beside the outbox: a local edit and its patch, the
\* connection, pointer moves, and the clock in quarters of the throttle interval
NextPresence ==
  \/ (\E kind \in Kinds : editCount < MaxDocEdits /\ LocalEdit("shape:1", kind))
       /\ UNCHANGED serverVars
  \/ DebounceFire /\ UNCHANGED serverVars
  \/ Connect /\ UNCHANGED serverVars
  \/ OnConnected /\ UNCHANGED serverVars
  \/ GoOffline /\ UNCHANGED serverVars
  \/ SendPresence
  \/ (clockMs < MOUNT_MS + 25 * MaxThrottleSteps /\ AdvanceClock(25))

SpecPresence == Init /\ [][NextPresence]_vars

\* Messages the engine must ignore: a local edit and its patch, and store:state,
\* store:updated, store:confirmed and presence messages of this room and of
\* another one, with every version, every map of document records and every
\* updateId the engine can tell apart. The known version moves with
\* store:confirmed and store:updated.
NextIgnored ==
  \/ (\E kind \in Kinds : editCount < MaxDocEdits /\ LocalEdit("shape:1", kind))
       /\ UNCHANGED serverVars
  \/ (\E id \in SyncIds : ExpireRecentlySent(id)) /\ UNCHANGED serverVars
  \/ DebounceFire /\ UNCHANGED serverVars
  \/ Connect /\ UNCHANGED serverVars
  \/ OnConnected /\ UNCHANGED serverVars
  \/ (\E r \in Rooms, v \in Versions, recs \in SyncRecordMaps, uid \in UpdateIds :
        HandleStoreUpdated(r, v, recs, uid)) /\ UNCHANGED serverVars
  \/ (\E v \in Versions, recs \in SyncRecordMaps : HandleStoreState(OTHER_ROOM, v, recs))
       /\ UNCHANGED serverVars
  \/ (\E r \in Rooms, v \in Versions : HandleStoreConfirmed(r, v)) /\ UNCHANGED serverVars
  \/ (\E r \in Rooms, odId \in Participants : HandlePresenceUpdated(r, odId))

SpecIgnored == Init /\ [][NextIgnored]_vars

(* ------------------------------- claims ------------------------------- *)
\* a step of handleStoreConfirmed for the current room
ConfirmStep == \E v \in Versions : HandleStoreConfirmed(ROOM, v)

\* a step of handleError
ErrorStep == \E code \in ErrorCodes : HandleError(code)

\* the updateId of the patch in flight (the last one generated)
InflightUpdateId == patchCount

\* edits of the persisted offline entry
OfflineEdits == IF offline = <<>> THEN {} ELSE offline[1].edits

\* the edits of the patch a step puts on the wire
EmittedEdits == IF emitted' = <<>> THEN {} ELSE BatchEdits(emitted'[1].changes)

\* a step of handleStoreUpdated for a message carrying the updateId of a patch
\* this client sent and whose echo it has not handled yet
EchoStep ==
  \E v \in Versions, recs \in RecordMaps, uid \in pendingUpdateIds :
    HandleStoreUpdated(ROOM, v, recs, uid)

\* nothing is left that would make the engine act: no message on the way in
\* either direction and no timer armed
Quiescent ==
  /\ sock = "connected" /\ emitted = <<>> /\ s2c = <<>>
  /\ ~debounce /\ retryTimers = 0 /\ ~syncTimeout

\* C1: a store:patch is emitted only by a step that starts with the sender lock
\* free or that handles store:confirmed (which frees it first), and the lock is
\* freed only by store:confirmed, an error, the safety timeout or a reconnect.
C1_OutboxLock ==
  [][/\ emitted' # <<>> => (~isSending \/ ConfirmStep)
     /\ (isSending /\ ~isSending') => (ConfirmStep \/ ErrorStep \/ SyncTimeoutFire \/ OnConnected)]_vars

\* C1 witness: a second edit was captured while the first patch was in flight on
\* an unbroken connection, its debounce timer has fired, and no patch was sent.
C1_Witness ==
  /\ sock = "connected" /\ isSending /\ inflight # <<>>
  /\ hasChanges(pending) /\ ~debounce /\ retryTimers = 0
  /\ patchCount = 1 /\ editCount = 2

\* C2: every captured edit that store:confirmed has not acknowledged is in the
\* pending batch, in the in-flight slot or in the offline entry.
C2_NoEditDropped ==
  (1..editCount) \ acked \subseteq BatchEdits(pending) \cup SlotEdits(inflight) \cup OfflineEdits

\* C3: no step decreases the known version.
C3_VersionMonotone == [][version' >= version]_vars

\* C4: once the engine has reconnected and the offline entry has been consumed
\* by the snapshots handled since, every record id put while offline (and not
\* removed by the user since) is in the local document.
C4_OfflineIdsKept ==
  (sock = "connected" /\ offline = <<>>) => offlineAdded \subseteq DOMAIN doc

\* C5: handling a store:updated whose updateId is that of a patch this client
\* sent puts no record into the store, removes none and changes no local
\* timestamp.
C5_EchoNotApplied == [][EchoStep => (doc' = doc /\ localTimestamps' = localTimestamps)]_vars

\* C5 witness: the echo of the client's patch has been handled (its updateId is
\* consumed) at a later clock value and after the record the patch carried was
\* forgotten as recently sent, so that only the updateId told it apart from a
\* remote change; the record still has the local content.
C5_Witness ==
  /\ patchCount = 1 /\ pendingUpdateIds = {} /\ isSending /\ ~syncTimeout
  /\ recentlySent = {} /\ version = 0 /\ DOMAIN doc = {"shape:1"} /\ doc["shape:1"] = 1
  /\ now = MaxTime

\* C6: with the connection up and the server answering every patch, the engine
\* comes to rest only when every captured edit has been confirmed.
C6_EventualFlush == Quiescent => (1..editCount) \subseteq acked

\* C7: whenever the sender lock is held the safety timer is armed.
C7_LockGuarded == isSending => syncTimeout

\* C8: a store:updated carrying the updateId of the in-flight patch advances the
\* version to the message's, empties the slot, cancels the safety timer, frees
\* the lock and flushes a non-empty pending batch.
C8_EchoAcknowledges ==
  [][\A v \in Versions, recs \in RecordMaps :
       (isSending /\ inflight # <<>> /\ InflightUpdateId \in pendingUpdateIds
          /\ HandleStoreUpdated(ROOM, v, recs, InflightUpdateId))
       => /\ version' = v
          /\ IF hasChanges(pending)
             THEN emitted' # <<>> /\ inflight' = <<pending>>
             ELSE inflight' = <<>> /\ ~isSending' /\ ~syncTimeout']_vars

\* C9: store:confirmed{v} while a patch is in flight sets the version to v and
\* empties the slot and frees the lock; a non-empty pending batch is sent in the
\* same step, whole, with baseVersion v.
C9_ConfirmedFlushes ==
  [][\A v \in Versions :
       (isSending /\ inflight # <<>> /\ HandleStoreConfirmed(ROOM, v))
       => /\ version' = v
          /\ IF hasChanges(pending)
             THEN /\ emitted' = <<[roomId |-> ROOM, baseVersion |-> v, changes |-> pending]>>
                  /\ inflight' = <<pending>> /\ isSending' /\ pending' = EmptyBatch
             ELSE emitted' = <<>> /\ inflight' = <<>> /\ ~isSending']_vars

IdleConnected == SocketConnected /\ ~isSending /\ inflight = <<>> /\ retryTimers = 0

\* the entries of one array of a batch are in the order they were captured
CaptureOrder(q) == \A i, j \in 1..Len(q) : i < j => q[i].n < q[j].n

\* C11: while the engine is connected and idle an edit emits nothing, joins the
\* pending batch and leaves the debounce timer armed; the debounce timer firing
\* then emits one store:patch that carries the whole pending batch, every array
\* of it in capture order, and leaves the pending batch empty.
C11_DebounceCoalesces ==
  [][IdleConnected =>
       /\ editCount' = editCount + 1
            => /\ emitted' = <<>> /\ debounce' /\ patchCount' = patchCount
               /\ BatchEdits(pending') = BatchEdits(pending) \cup {editCount'}
       /\ (debounce /\ ~debounce' /\ hasChanges(pending))
            => /\ emitted' # <<>> /\ patchCount' = patchCount + 1
               /\ emitted'[1].changes = pending /\ pending' = EmptyBatch
               /\ CaptureOrder(pending.put) /\ CaptureOrder(pending.update)
               /\ CaptureOrder(pending.remove)]_vars

\* C11 witness: two edits were captured on a connected, idle engine and the one
\* patch sent so far, sent by the debounce timer, carries both.
C11_Witness ==
  /\ emitted # <<>> /\ BatchEdits(emitted[1].changes) = {1, 2}
  /\ Len(emitted[1].changes.put) = 1 /\ Len(emitted[1].changes.update) = 1
  /\ patchCount = 1 /\ ~debounce /\ conflictRetryCount = 0 /\ acked = {}

\* a step of handleError for a VERSION_CONFLICT error
ConflictStep == HandleError("VERSION_CONFLICT")

\* C12: handling VERSION_CONFLICT puts the entries of the in-flight batch in
\* front of those of the pending batch, array by array, empties the slot and
\* frees the lock; every edit queued before the step is queued after it.
C12_ConflictRestores ==
  [][ConflictStep =>
       /\ inflight' = <<>> /\ ~isSending' /\ emitted' = <<>>
       /\ IF inflight = <<>> THEN pending' = pending
          ELSE /\ pending'.put = inflight[1].put \o pending.put
               /\ pending'.update = inflight[1].update \o pending.update
               /\ pending'.remove = inflight[1].remove \o pending.remove
       /\ BatchEdits(pending') = BatchEdits(pending) \cup SlotEdits(inflight)]_vars

\* C12 witness: the first patch was rejected with VERSION_CONFLICT while a
\* second edit was pending; both edits are pending, the slot is empty and the
\* lock is free.
C12_Witness ==
  /\ conflictRetryCount = 1 /\ patchCount = 1 /\ inflight = <<>> /\ ~isSending
  /\ Len(pending.put) = 1 /\ pending.put[1].n = 1
  /\ Len(pending.update) = 1 /\ pending.update[1].n = 2
  /\ retryTimers = 1 /\ sock = "connected" /\ acked = {}

\* C13: the step that counts a conflict schedules one retry, with delay
\* min(50 * 2^k, 2000) ms where k is the counter before the step (50 ms for
\* k = 0, 100 ms for k = 1), and store:confirmed sets the counter to 0.
C13_Backoff ==
  [][/\ \A k \in 0..MaxBackoffSteps :
          (conflictRetryCount = k /\ conflictRetryCount' # 0 /\ conflictRetryCount' # k)
            => /\ conflictRetryCount' = k + 1 /\ retryTimers' = retryTimers + 1
               /\ retryDelay' = IF 50 * 2^k < 2000 THEN 50 * 2^k ELSE 2000
               /\ k = 0 => retryDelay' = 50
               /\ k = 1 => retryDelay' = 100
     /\ ConfirmStep => conflictRetryCount' = 0
     /\ retryDelay' \in {50, 100} => conflictRetryCount' \in {1, 2}]_vars

\* C13 witness: the seventh conflict in a row was handled and its retry is
\* scheduled with the capped delay.
C13_Witness ==
  /\ conflictRetryCount = 7 /\ retryDelay = 2000 /\ retryTimers = 1
  /\ sock = "connected" /\ ~isSending /\ inflight = <<>> /\ hasChanges(pending)

\* C14: the safety timer expiring puts the entries of the in-flight batch in
\* front of those of the pending batch, array by array, empties the slot, frees
\* the lock and schedules one retry of the flush; every edit queued before the
\* step is queued after it, and nothing is sent by the step itself.
C14_TimeoutRestores ==
  [][SyncTimeoutFire =>
       /\ inflight' = <<>> /\ ~isSending' /\ ~syncTimeout' /\ emitted' = <<>>
       /\ retryTimers' = retryTimers + 1 /\ retryDelay' = 100
       /\ IF inflight = <<>> THEN pending' = pending
          ELSE /\ pending'.put = inflight[1].put \o pending.put
               /\ pending'.update = inflight[1].update \o pending.update
               /\ pending'.remove = inflight[1].remove \o pending.remove
       /\ BatchEdits(pending') = BatchEdits(pending) \cup SlotEdits(inflight)]_vars

\* C14 witness: the safety timer of the first patch expired, with no answer
\* from the server, while a second edit was pending; both edits are pending,
\* the lock is free and the retry is scheduled.
C14_Witness ==
  /\ retryDelay = 100 /\ retryTimers = 1 /\ ~syncTimeout /\ ~isSending /\ inflight = <<>>
  /\ Len(pending.put) = 1 /\ pending.put[1].n = 1
  /\ Len(pending.update) = 1 /\ pending.update[1].n = 2
  /\ patchCount = 1 /\ conflictRetryCount = 0 /\ acked = {} /\ sock = "connected"

\* C15: disconnect() leaves the debounce timer, the safety timer and every
\* retry timer cancelled and the sender lock free, and does not change the
\* pending batch.
C15_DisconnectClears ==
  [][GoOffline => /\ ~debounce' /\ ~syncTimeout' /\ retryTimers' = 0 /\ ~isSending'
                  /\ pending' = pending]_vars

\* C16: handling a store:state of the room while an offline entry exists loads
\* the store with mergeWithLWW(offline snapshot, offline timestamps, server
\* records, server timestamps stamped now) whenever that merge has a record,
\* removes the offline entry and clears hasPendingChanges; a record of both the
\* offline snapshot and the server's records whose offline timestamp is older
\* than now ends with the server's content.
C16_OfflineReplay ==
  [][\A v \in Versions, recs \in SyncRecordMaps :
       (offline # <<>> /\ sock' = sock /\ editCount' = editCount /\ now' = now
          /\ version' = v /\ HandleStoreState(ROOM, v, recs))
       => LET snap == offline[1].snapshot
              offTs == offline[1].timestamps
              m == mergeWithLWW(snap, offTs, recs,
                                [id \in DOMAIN recs |-> Ts(now, "server")], CLIENT_ID, now)
          IN /\ DOMAIN m.records # {} => doc' = m.records
             /\ localTimestamps' = m.timestamps
             /\ offline' = <<>> /\ ~hasPendingChanges'
             /\ \A id \in DOMAIN snap \cap DOMAIN recs :
                  (id \in DOMAIN offTs /\ offTs[id].time < now) => doc'[id] = recs[id]
             /\ \A id \in DOMAIN snap \ DOMAIN recs : id \in DOMAIN doc' /\ doc'[id] = snap[id]]_vars

\* C16 witness: shape:1 was put offline at time 1; the store:state handled after
\* the reconnect, at time 2, carried shape:1 too, and the record now has the
\* server's content and the server's timestamp; the offline entry is gone.
C16_Witness ==
  /\ editCount = 1 /\ offlineAdded = {"shape:1"} /\ offline = <<>> /\ ~hasPendingChanges
  /\ sock = "connected" /\ now = 2
  /\ "shape:1" \in DOMAIN doc /\ doc["shape:1"] = RemoteVal
  /\ "shape:1" \in DOMAIN localTimestamps /\ localTimestamps["shape:1"] = Ts(2, "server")

\* versions the server of SpecServer can reach
ServerVersions == 0..(MaxVersion + MaxPatches)

\* steps of the handlers of the server's messages, as SpecServer delivers them
ServerConfirmStep == \E v \in ServerVersions : HandleStoreConfirmed(ROOM, v)

ServerStateStep == \E v \in ServerVersions : HandleStoreState(ROOM, v, EmptyMap)

ServerUpdatedStep == \E v \in ServerVersions : HandleStoreUpdated(ROOM, v, EmptyMap, NoUpdateId)

\* C17: a local edit, a flush by the debounce or a retry timer, the safety
\* timer expiring, a VERSION_CONFLICT error and a disconnect leave the known
\* version unchanged; the version changes only in a step that handles
\* store:confirmed, store:state, or a store:updated with a greater version; and
\* the baseVersion of every store:patch is the known version.
C17_VersionNotGuessed ==
  [][/\ (editCount' # editCount \/ DebounceFire \/ RetryFire \/ SyncTimeoutFire
           \/ ConflictStep \/ GoOffline) => version' = version
     /\ version' # version
          => (ServerConfirmStep \/ ServerStateStep \/ (ServerUpdatedStep /\ version' > version))
     /\ emitted' # <<>> => emitted'[1].baseVersion = version']_vars

\* C17 witness: the first patch (baseVersion 0) was rejected after another
\* participant's update had moved the version to 1, and the retry is on the
\* wire with baseVersion 1; nothing was confirmed yet.
C17_Witness ==
  /\ emitted # <<>> /\ emitted[1].baseVersion = 1 /\ version = 1
  /\ patchCount = 2 /\ conflictRetryCount = 1 /\ acked = {} /\ srvVersion = 1

\* record ids of the entries of a batch
BatchIds(b) ==
  {b.put[i].id : i \in 1..Len(b.put)} \cup {b.update[i].id : i \in 1..Len(b.update)}
    \cup {b.remove[i].id : i \in 1..Len(b.remove)}

C19_NoRemoteWriteQueued ==
  BatchEdits(pending) \cup SlotEdits(inflight) \cup OfflineEdits \subseteq 1..editCount

\* the record id is left as it was by a step
KeptAsIs(id) ==
  /\ id \in DOMAIN doc' <=> id \in DOMAIN doc
  /\ id \in DOMAIN doc => doc'[id] = doc[id]
  /\ id \in DOMAIN localTimestamps' <=> id \in DOMAIN localTimestamps
  /\ id \in DOMAIN localTimestamps => localTimestamps'[id] = localTimestamps[id]

\* C20: handling a store:updated with a version greater than the known one
\* (no echo): a non-filtered record of the update outside the echo-suppression
\* window is written, and its local timestamp set to the remote timestamp, if
\* the remote timestamp is strictly greater than its local timestamp (time 0
\* if it has none), and is left as it was otherwise; a non-filtered local
\* record absent from the update whose local timestamp is older than the remote
\* timestamp is removed.
C20_RemoteUpdateRule ==
  [][\A v \in Versions, recs \in SyncRecordMaps :
       (v > version /\ version' = v /\ editCount' = editCount /\ now' = now
          /\ HandleStoreUpdated(ROOM, v, recs, NoUpdateId))
       => LET remoteTs == Ts(now, "remote")
              localTs(id) == IF id \in DOMAIN localTimestamps THEN localTimestamps[id]
                             ELSE Ts(0, CLIENT_ID)
          IN /\ \A id \in DOMAIN recs :
                  IF shouldApply(id) /\ id \notin recentlySent
                       /\ compareTimestamps(remoteTs, localTs(id)) > 0
                  THEN /\ id \in DOMAIN doc' /\ doc'[id] = recs[id]
                       /\ id \in DOMAIN localTimestamps' /\ localTimestamps'[id] = remoteTs
                  ELSE KeptAsIs(id)
             /\ \A id \in DOMAIN doc \ DOMAIN recs :
                  IF shouldApply(id) /\ id \in DOMAIN localTimestamps
                       /\ compareTimestamps(remoteTs, localTimestamps[id]) > 0
                  THEN id \notin DOMAIN doc' /\ id \notin DOMAIN localTimestamps'
                  ELSE KeptAsIs(id)]_vars

\* C20 witness: shape:1 was put locally at time 1 and, after the echo-suppression
\* window, overwritten at time 2 by a store:updated of version 1: it has the
\* remote content and the remote timestamp.
C20_Witness ==
  /\ editCount = 1 /\ DOMAIN doc = {"shape:1"} /\ doc["shape:1"] = RemoteVal
  /\ "shape:1" \in DOMAIN localTimestamps /\ localTimestamps["shape:1"] = Ts(2, "remote")
  /\ recentlySent = {} /\ version = 1 /\ now = 2 /\ pending.put # <<>>

\* C21: while a store:updated of a greater version is applied, a record whose
\* put or removal fails is skipped (and logged) and the handler goes on: every
\* other applicable record of the update is written, every other removable
\* local record is removed, and the known version becomes the update's version.
C21_FailureIsolated ==
  [][\A v \in Versions, recs \in SyncRecordMaps, bad \in SUBSET SyncIds :
       (v > version /\ editCount' = editCount /\ now' = now
          /\ HandleStoreUpdatedFailing(ROOM, v, recs, NoUpdateId, bad))
       => LET remoteTs == Ts(now, "remote")
          IN /\ version' = v
             /\ warned' \subseteq bad
             /\ \A id \in warned' : KeptAsIs(id)
             /\ \A id \in DOMAIN recs \ bad :
                  (shouldApply(id) /\ id \notin recentlySent
                     /\ compareTimestamps(remoteTs, LocalTsOrDefault(localTimestamps, id)) > 0)
                  => (id \in DOMAIN doc' /\ doc'[id] = recs[id]
                        /\ id \in DOMAIN localTimestamps' /\ localTimestamps'[id] = remoteTs)
             /\ \A id \in (DOMAIN doc \ DOMAIN recs) \ bad :
                  (shouldApply(id) /\ id \in DOMAIN localTimestamps
                     /\ compareTimestamps(remoteTs, localTimestamps[id]) > 0)
                  => id \notin DOMAIN doc']_vars

\* C21 witness: the put of shape:1 failed and was logged, shape:2 of the same
\* update was written and the version advanced.
C21_Witness ==
  /\ warned = {"shape:1"} /\ DOMAIN doc = {"shape:2"} /\ doc["shape:2"] = RemoteVal
  /\ version = 1 /\ "shape:2" \in DOMAIN localTimestamps
  /\ localTimestamps["shape:2"] = Ts(now, "remote")

\* C22: an UNAUTHENTICATED error is fatal for the session: handling it starts
\* no reconnection of the socket and puts no patch on the wire.
C22_AuthFailureFatal ==
  [][HandleError("UNAUTHENTICATED") => (sock' # "connecting" /\ emitted' = <<>>)]_vars

\* the arguments and the result of the last call of mergeWithLWW
MergedBy(call) == mergeOut # <<>> /\ mergeOut[1].call = call

\* C23: mergeWithLWW returns, for an id present only locally, the local record
\* and its timestamp; for an id present only remotely, the remote record and
\* its timestamp; for an id present on both sides, the side with the strictly
\* greater timestamp, the local side on a tie; the ids of the result are the
\* union of the ids of both inputs.
C23_MergeContract ==
  MergedBy("merge") =>
    LET a == mergeIn
        r == mergeOut[1].result
    IN /\ DOMAIN r.records = DOMAIN a.lr \cup DOMAIN a.rr
       /\ DOMAIN r.timestamps = DOMAIN a.lr \cup DOMAIN a.rr
       /\ \A id \in DOMAIN a.lr \ DOMAIN a.rr :
            r.records[id] = a.lr[id] /\ (id \in DOMAIN a.lts => r.timestamps[id] = a.lts[id])
       /\ \A id \in DOMAIN a.rr \ DOMAIN a.lr :
            r.records[id] = a.rr[id] /\ (id \in DOMAIN a.rts => r.timestamps[id] = a.rts[id])
       /\ \A id \in (DOMAIN a.lr \cap DOMAIN a.rr) \cap (DOMAIN a.lts \cap DOMAIN a.rts) :
            IF compareTimestamps(a.rts[id], a.lts[id]) > 0
            THEN r.records[id] = a.rr[id] /\ r.timestamps[id] = a.rts[id]
            ELSE r.records[id] = a.lr[id] /\ r.timestamps[id] = a.lts[id]

\* C23 witness: shape:1 is on both sides with the remote timestamp greater and
\* the merge returned the remote record; shape:2 is on both sides with equal
\* timestamps and the merge returned the local record.
C23_Witness ==
  /\ MergedBy("merge")
  /\ DOMAIN mergeIn.lr = SyncIds /\ DOMAIN mergeIn.rr = SyncIds
  /\ DOMAIN mergeIn.lts = SyncIds /\ DOMAIN mergeIn.rts = SyncIds
  /\ compareTimestamps(mergeIn.rts["shape:1"], mergeIn.lts["shape:1"]) > 0
  /\ mergeIn.rts["shape:2"] = mergeIn.lts["shape:2"]
  /\ mergeOut[1].result.records["shape:1"] = RemoteVal
  /\ mergeOut[1].result.records["shape:2"] = LocalVal

\* C24 as stated: merging X with itself under the same timestamps T returns X
\* and T, for every record map X and timestamp map T.
C24_IdempotentAnyT ==
  MergedBy("self") =>
    (mergeOut[1].result.records = mergeIn.lr /\ mergeOut[1].result.timestamps = mergeIn.lts)

\* C24 amended: merging X with itself under the same timestamps T returns X and
\* T when T has an entry for exactly the records of X.
C24_Idempotent ==
  (MergedBy("self") /\ DOMAIN mergeIn.lts = DOMAIN mergeIn.lr) =>
    (mergeOut[1].result.records = mergeIn.lr /\ mergeOut[1].result.timestamps = mergeIn.lts)

\* C24 witness: two records, each with a timestamp, merged with themselves.
C24_Witness ==
  /\ MergedBy("self")
  /\ DOMAIN mergeIn.lr = SyncIds /\ DOMAIN mergeIn.lts = SyncIds
  /\ mergeIn.lts["shape:1"] # mergeIn.lts["shape:2"]

\* C25: two calls of mergeWithLWW with the same arguments return the same record
\* and timestamp maps whatever the wall-clock time of each call, and leave the
\* arguments as they were.
C25_MergeDeterministic ==
  [][(MergeCall /\ MergedBy("merge"))
       => (mergeOut'[1].result = mergeOut[1].result /\ mergeIn' = mergeIn)]_vars

\* the entries of the store that belong to the pair (tabId, roomId)
EntriesOf(changes, tabId, roomId) ==
  {i \in 1..Len(changes) : changes[i].tabId = tabId /\ changes[i].roomId = roomId}

\* the entries of the store that belong to other pairs, in order
OthersOf(changes, tabId, roomId) ==
  SelectSeq(changes, LAMBDA c : ~(c.tabId = tabId /\ c.roomId = roomId))

\* C26: after any sequence of saves and clears the offline queue store holds at
\* most one entry per (tab, room) pair; a save for a pair leaves that pair with
\* the saved entry alone and the entries of the other pairs unchanged.
C26_OneEntryPerPair ==
  [][/\ \A tabId \in Tabs, roomId \in Rooms :
          Cardinality(EntriesOf(queueStore', tabId, roomId)) <= 1
     /\ \A tabId \in Tabs, roomId \in Rooms, t \in 1..MaxSaves :
          SaveOffline(tabId, roomId, t)
          => /\ \E i \in 1..Len(queueStore') :
                  /\ EntriesOf(queueStore', tabId, roomId) = {i}
                  /\ queueStore'[i] = OfflineChange(tabId, roomId, t)
             /\ OthersOf(queueStore', tabId, roomId) = OthersOf(queueStore, tabId, roomId)]_vars

\* C26 witness: the entry saved first was replaced by the third save, after the
\* entry of another pair had been saved; both pairs have one entry.
C26_Witness ==
  /\ Len(queueStore) = 2
  /\ queueStore[1].timestamp = 3 /\ queueStore[2].timestamp = 2
  /\ queueStore[1].roomId = queueStore[2].roomId

\* C27: join(roomId) makes roomId the active room whether or not the socket is
\* connected, so that the join is sent once the connection is established.
C27_JoinMarksRoom == joinRequested # NoRoom => currentRoomId = joinRequested

\* the socket.io sockets of the transport that are open, with listeners attached
LiveSockets == {i \in 1..Len(ioSockets) : ioSockets[i] # "closed"}

\* C28: after any number of connect() calls the transport has exactly one
\* socket with one set of listeners, and connect() on an established
\* connection changes nothing.
C28_ConnectIdempotent ==
  [][TConnect => /\ Cardinality({i \in 1..Len(ioSockets') : ioSockets'[i] # "closed"}) = 1
                 /\ ThisSocketConnected => UNCHANGED transportVars]_vars

\* C29: once every cleanup that is due has run, the presence map holds no entry
\* received 11000 ms ago or earlier.
C29_StaleEntryGone ==
  clockMs < sweepAt =>
    \A p \in DOMAIN remotePresences : clockMs - remotePresences[p].lastUpdated < 11000

\* the outbox as sendPresence finds it
OutboxState == <<pending, inflight, isSending, isSyncing, syncTimeout, pendingUpdateIds, patchCount>>

\* C30: presence is never queued: a cursor produced while disconnected, or less
\* than 50 ms after the presence:update emitted last, is dropped, and none but
\* the cursor just produced is ever emitted; a cursor produced otherwise is
\* emitted whether or not the sender lock is held, and the outbox is left as it
\* was.
C30_PresenceNotQueued ==
  [][/\ SendPresence
        => /\ presenceSent' =
                IF SocketConnected /\ clockMs - lastPresenceUpdate >= 50
                THEN Append(presenceSent, cursorCount') ELSE presenceSent
           /\ OutboxState' = OutboxState
     /\ presenceSent' # presenceSent
        => (cursorCount' = cursorCount + 1 /\ presenceSent' = Append(presenceSent, cursorCount'))]_vars

\* C30 witness: the second cursor was dropped by the throttle and the third was
\* emitted while a patch was in flight under the sender lock.
C30_Witness ==
  /\ presenceSent = <<1, 3>> /\ lastPresenceUpdate = clockMs
  /\ isSending /\ inflight # <<>>

\* C31: while the backoff timer of a VERSION_CONFLICT is alive no store:patch is
\* sent but by the expiry of that timer, whatever edits are captured and
\* whatever debounce timer fires in the meantime.
C31_WaitsForBackoff ==
  [][(retryTimers > 0 /\ emitted' # <<>>) => retryTimers' < retryTimers]_vars

\* the records of the call made last that both sides have and, with window,
\* that are outside the echo-suppression window
OnBothSides(window) ==
  {id \in DOMAIN mergeIn.lr \cap DOMAIN mergeIn.rr : window => id \notin mergeOut[1].recent}

\* the two paths decide alike on the records ids: the live path writes the remote
\* record iff mergeWithLWW returns it, and on equal timestamps neither does
PathsAgreeOn(ids) ==
  \A id \in ids :
    LET localTs == IF id \in DOMAIN mergeIn.lts THEN mergeIn.lts[id] ELSE Ts(0, CLIENT_ID)
        merged == mergeOut[1].result.records[id]
    IN /\ id \in mergeOut[1].puts <=> merged = mergeIn.rr[id]
       /\ id \notin mergeOut[1].puts <=> merged = mergeIn.lr[id]
       /\ localTs = mergeOut[1].remoteTs => (id \notin mergeOut[1].puts /\ merged = mergeIn.lr[id])

\* C32 as stated: for every record on both sides the live store:updated path
\* keeps or replaces the local record exactly as mergeWithLWW would.
C32_SameTieBreakAnyRecord ==
  (mergeOut # <<>> /\ mergeOut[1].call = "paths") => PathsAgreeOn(OnBothSides(FALSE))

\* C32 amended: for every record on both sides that is outside the
\* echo-suppression window the live store:updated path keeps or replaces the
\* local record exactly as mergeWithLWW would, the local side winning when the
\* timestamps are equal.
C32_SameTieBreak ==
  (mergeOut # <<>> /\ mergeOut[1].call = "paths") => PathsAgreeOn(OnBothSides(TRUE))

\* C32 witness: shape:1 is on both sides outside the window with a local
\* timestamp equal to the remote one, and both paths kept the local record;
\* shape:2 has the older local timestamp and both paths took the remote record.
C32_Witness ==
  /\ mergeOut # <<>> /\ mergeOut[1].call = "paths" /\ mergeOut[1].recent = {}
  /\ DOMAIN mergeIn.lr = SyncIds /\ DOMAIN mergeIn.rr = SyncIds /\ DOMAIN mergeIn.lts = SyncIds
  /\ mergeIn.lts["shape:1"] = mergeOut[1].remoteTs
  /\ mergeOut[1].puts = {"shape:2"}
  /\ mergeOut[1].result.records["shape:1"] = LocalVal
  /\ mergeOut[1].result.records["shape:2"] = RemoteVal

\* C33: every store:patch put on the wire carries the updateId the engine
\* generated for that batch, and that updateId is in the set of sent update ids.
C33_PatchCarriesUpdateId ==
  emitted # <<>> =>
    /\ "updateId" \in DOMAIN emitted[1]
    /\ emitted[1].updateId = patchCount
    /\ patchCount \in pendingUpdateIds

\* the sign of a number
Sign(n) == IF n < 0 THEN -1 ELSE IF n > 0 THEN 1 ELSE 0

\* the pairs of distinct client ids in lexicographic order
ClientIdBefore ==
  {<<CLIENT_ID, "remote">>, <<CLIENT_ID, "server">>, <<CLIENT_ID, "unknown">>,
   <<"remote", "server">>, <<"remote", "unknown">>, <<"server", "unknown">>}

\* C34: compareTimestamps orders by time and, for equal times, by clientId; it
\* returns 0 iff both timestamps have the same time and clientId; the sign of
\* compare(a, b) is the opposite of that of compare(b, a); and compare(a, b) > 0
\* and compare(b, c) > 0 imply compare(a, c) > 0.
C34_TotalOrder ==
  (mergeOut # <<>> /\ mergeOut[1].call = "compare") =>
    LET a == mergeIn.a
        b == mergeIn.b
        r == mergeOut[1]
    IN /\ a.time < b.time => r.ab < 0
       /\ a.time > b.time => r.ab > 0
       /\ (a.time = b.time /\ <<a.clientId, b.clientId>> \in ClientIdBefore) => r.ab < 0
       /\ (a.time = b.time /\ <<b.clientId, a.clientId>> \in ClientIdBefore) => r.ab > 0
       /\ r.ab = 0 <=> (a.time = b.time /\ a.clientId = b.clientId)
       /\ Sign(r.ab) = 0 - Sign(r.ba)
       /\ (r.ab > 0 /\ r.bc > 0) => r.ac > 0

\* C34 witness: a and b have the same time and a the later clientId, c is
\* older than both, and compare(a, b), compare(b, c) and compare(a, c) are
\* positive.
C34_Witness ==
  /\ mergeOut # <<>> /\ mergeOut[1].call = "compare"
  /\ mergeIn.a = Ts(1, "server") /\ mergeIn.b = Ts(1, "remote") /\ mergeIn.c = Ts(0, "unknown")
  /\ mergeOut[1].ab > 0 /\ mergeOut[1].ba < 0 /\ mergeOut[1].bc > 0 /\ mergeOut[1].ac > 0

\* a message the engine must ignore is handled: a store:updated of this room
\* with a version not greater than the known one, or a store:state,
\* store:updated, store:confirmed or presence message of another room
IgnoredMessage ==
  \/ \E v \in Versions, recs \in SyncRecordMaps, uid \in UpdateIds :
       v <= version /\ HandleStoreUpdated(ROOM, v, recs, uid)
  \/ \E v \in Versions, recs \in SyncRecordMaps, uid \in UpdateIds :
       HandleStoreUpdated(OTHER_ROOM, v, recs, uid)
  \/ \E v \in Versions, recs \in SyncRecordMaps : HandleStoreState(OTHER_ROOM, v, recs)
  \/ \E v \in Versions : HandleStoreConfirmed(OTHER_ROOM, v)
  \/ \E odId \in Participants : HandlePresenceUpdated(OTHER_ROOM, odId)

\* C35: handling a store:updated of this room whose version is not greater than
\* the known one, or any store:state, store:updated, store:confirmed or
\* presence message of another room, leaves the document store, the local
\* timestamps, the known version and the pending and in-flight batches as they
\* were.
C35_IgnoredMessagesFrame ==
  [][IgnoredMessage => UNCHANGED <<doc, localTimestamps, version, pending, inflight>>]_vars

\* C35 witness: the known version is 1, the patch of the local put of shape:1 is
\* in flight, and a store:updated that is not ahead of the known version has
\* cleared the safety timer; the record, its timestamp, the version and the
\* in-flight batch are as they were.
C35_Witness ==
  /\ version = 1 /\ patchCount = 1 /\ pendingUpdateIds = {1}
  /\ isSending /\ inflight # <<>> /\ ~syncTimeout
  /\ "shape:1" \in DOMAIN doc /\ doc["shape:1"] = 1
  /\ localTimestamps = [id \in {"shape:1"} |-> Ts(now, CLIENT_ID)]

\* ids of the records put by the entries of a batch
PutIds(b) == {b.put[i].id : i \in 1..Len(b.put)}

\* ids of the records this client created whose put the server has not
\* acknowledged: the put is in the pending batch or in flight
UnackedPuts == PutIds(pending) \cup (IF inflight = <<>> THEN {} ELSE PutIds(inflight[1]))

\* C36: handling a store:updated of another client removes from the document no
\* record this client created whose put is in the pending batch or in flight.
C36_UnackedPutKept ==
  [][(\E v \in Versions, recs \in RecordMaps, uid \in {NoUpdateId, ForeignUpdateId} :
        HandleStoreUpdated(ROOM, v, recs, uid))
     => \A id \in UnackedPuts \cap DOMAIN doc : id \in DOMAIN doc']_vars

\* handling the store:state message (v, recs) of the room now would leave the
\* document store, the version and hasPendingChanges as they are
StoreStateRepeats(v, recs) ==
  ENABLED (/\ HandleStoreState(ROOM, v, recs)
           /\ doc' = doc /\ version' = version /\ hasPendingChanges' = hasPendingChanges)

\* C37: once a store:state message has been handled, handling the same message
\* again changes neither the document store, the version nor
\* hasPendingChanges, whether or not an offline entry existed before the first.
C37_StoreStateIdempotent ==
  [][\A v \in Versions, recs \in SyncRecordMaps :
       HandleStoreState(ROOM, v, recs) => StoreStateRepeats(v, recs)']_vars

\* C38: between event handlers the sender lock is held iff the in-flight slot
\* holds a batch.
C38_LockMatchesSlot == isSending <=> inflight # <<>>

\* C39: the syncing status is true in every state in which a patch is in flight
\* (the sender lock is held) and false in every other state.
C39_SyncingReflectsOutbox == isSyncing <=> isSending

\* an edit is captured while the socket is not connected
OfflineEditStep == ~SocketConnected /\ editCount' = editCount + 1

\* a store:state of the room is handled
StoreStateStep == \E v \in Versions, recs \in RecordMaps : HandleStoreState(ROOM, v, recs)

====
